---------------------------- MODULE Spec2Model ----------------------------
(***************************************************************************)
(* Threshold secret sharing (Shamir and packed/ramp variant) with its      *)
(* prime-field backends and number-theoretic primitives.                   *)
(*                                                                         *)
(* The library is a set of pure functions over field elements.  Every      *)
(* function is an operator computed the way the Rust code computes it      *)
(* (loops become RECURSIVE operators over the loop counter); the state     *)
(* machine draws a configuration and the inputs, the outcome of the        *)
(* random source included, and applies the operations to them.  A panic    *)
(* (assert!, debug_assert!, index out of bounds) is an outcome of its own. *)
(***************************************************************************)
EXTENDS Integers, Sequences, FiniteSets, TLC

VARIABLES
    cfg,         \* the scheme's parameters (ShamirSecretSharing / PackedSecretSharing)
    debug_assertions, \* the build: whether debug_assert! is compiled in
    calls,       \* the operations applied so far, in order
    secrets,     \* the secrets handed to share
    randomness,  \* what the random source returned inside share
    shares,      \* outcome of share / deterministic_share
    secrets2,    \* a second sharing under the same parameters
    randomness2,
    shares2,
    indices,     \* arguments of reconstruct: the ranks ...
    given,       \* ... and the share values
    result       \* outcome of reconstruct / fully_reconstruct / a field operation

vars == <<cfg, debug_assertions, calls, secrets, randomness, shares, secrets2, randomness2,
          shares2, indices, given, result>>

-----------------------------------------------------------------------------
(* Bounds of the model *)

\* inputs (secrets, outcomes of the random source) are drawn from 0..MaxElem
MaxElem == 2
\* parameters: threshold in 0..MaxThreshold, secret_count in 1..MaxSecretCount
MaxThreshold == 2
MaxSecretCount == 2
\* share_count of the packed scheme up to MaxShareCount, of Shamir's up to
\* MaxShamirShareCount
MaxShareCount == 8
MaxShamirShareCount == 4
\* reconstruct is handed reconstruct_limit .. reconstruct_limit + MaxExtraShares
\* shares, or all of them
MaxExtraShares == 1

-----------------------------------------------------------------------------
(* Outcomes: a returned value or a panic *)

Ok(v) == [ok |-> TRUE, val |-> v]
Panic(msg) == [ok |-> FALSE, val |-> msg]

\* the rest of a function after a call: it runs on the value the call
\* returned, and a panic of the call is the panic of the function
AndThen(r, rest(_)) == IF r.ok THEN rest(r.val) ELSE r

-----------------------------------------------------------------------------
(* Rust integer arithmetic on i64: / truncates, % takes the dividend's sign *)

Abs(a) == IF a >= 0 THEN a ELSE -a

Rem(a, b) == IF a >= 0 THEN a % Abs(b) ELSE -((-a) % Abs(b))

Quot(a, b) ==
    IF (a >= 0) = (b > 0) THEN Abs(a) \div Abs(b) ELSE -(Abs(a) \div Abs(b))

-----------------------------------------------------------------------------
(* numtheory/euclid.rs, numtheory/basic.rs *)

\* a recursion that returns the coefficients of (b, a % b) without swapping
\* them back to (a, b)
RECURSIVE gcd(_, _)
gcd_unswapped(a, b) ==
    IF b = 0
    THEN <<a, 1, 0>>
    ELSE LET n == Quot(a, b)
             c == Rem(a, b)
             r == gcd(b, c)
         IN  <<r[1], r[2], r[3] - r[2] * n>>

gcd(a, b) ==
    IF b = 0
    THEN <<a, 1, 0>>
    ELSE LET n == Quot(a, b)
             c == Rem(a, b)
             r == gcd(b, c)
         IN  <<r[1], r[3], r[2] - r[3] * n>>

mod_inverse(k, prime) ==
    LET k2 == Rem(k, prime)
        r == IF k2 < 0 THEN -(gcd(prime, -k2)[3]) ELSE gcd(prime, k2)[3]
    IN  Rem(prime + r, prime)

RECURSIVE mod_pow_loop(_, _, _, _)
mod_pow_loop(x, e, acc, prime) ==
    IF e > 0
    THEN mod_pow_loop(Rem(x * x, prime), e \div 2,
                      IF e % 2 = 0 THEN acc ELSE Rem(acc * x, prime), prime)
    ELSE acc

mod_pow(x, e, prime) == mod_pow_loop(x, e, 1, prime)

-----------------------------------------------------------------------------
(* fields/natural.rs: NaturalPrimeField<i64>, elements are i64 *)

NaturalPrimeField(prime) == [backend |-> "natural", prime |-> prime]

natural_zero(zp) == 0
natural_one(zp) == 1
natural_add(zp, a, b) == Rem(a + b, zp.prime)
\* a subtraction that keeps the sign of the remainder
natural_sub_signed(zp, a, b) == Rem(a - b, zp.prime)
natural_sub(zp, a, b) ==
    LET c == Rem(a - b, zp.prime)
    IN  IF c >= 0 THEN c ELSE c + zp.prime
natural_mul(zp, a, b) == Rem(a * b, zp.prime)
natural_pow(zp, a, e) == mod_pow(a, e, zp.prime)
natural_inv(zp, a) == mod_inverse(a, zp.prime)
natural_eq(zp, lhs, rhs) == Rem(lhs, zp.prime) = Rem(rhs, zp.prime)
natural_encode(zp, x) == Rem(x, zp.prime)

-----------------------------------------------------------------------------
(* fields/mod.rs: the Field trait.  The schemes are generic in the field;
   they are modelled at the instance NaturalPrimeField<i64>, the one
   the repository's fixtures and tests of the schemes use. *)

zero(zp) == natural_zero(zp)
one(zp) == natural_one(zp)
add(zp, a, b) == natural_add(zp, a, b)
sub(zp, a, b) == natural_sub(zp, a, b)
mul(zp, a, b) == natural_mul(zp, a, b)
pow(zp, a, e) == natural_pow(zp, a, e)
inv(zp, a) == natural_inv(zp, a)
eq(zp, lhs, rhs) == natural_eq(zp, lhs, rhs)
neq(zp, lhs, rhs) == ~eq(zp, lhs, rhs)
encode(zp, x) == natural_encode(zp, x)

\* sample_with_replacement(count, rng): every sequence the source can return
sample_with_replacement(zp, count) == [1..count -> 0..(zp.prime - 1)]

-----------------------------------------------------------------------------
(* numtheory/basic.rs *)

\* Horner's rule, folding over the coefficients in reverse order
RECURSIVE horner_fold(_, _, _, _, _)
horner_fold(coefficients, i, partial, point, field) ==
    IF i = 0
    THEN partial
    ELSE horner_fold(coefficients, i - 1,
                     add(field, mul(field, partial, point), coefficients[i]),
                     point, field)

mod_evaluate_polynomial(coefficients, point, field) ==
    horner_fold(coefficients, Len(coefficients), zero(field), point, field)

\* zip stops at the shorter of the two
RECURSIVE weighted_sum_fold(_, _, _, _, _)
weighted_sum_fold(values, weights, i, sum, field) ==
    IF i > Len(values) \/ i > Len(weights)
    THEN sum
    ELSE weighted_sum_fold(values, weights, i + 1,
                           add(field, sum, mul(field, values[i], weights[i])),
                           field)

weighted_sum(values, weights, field) ==
    weighted_sum_fold(values, weights, 1, zero(field), field)

-----------------------------------------------------------------------------
(* numtheory/lagrange.rs *)

\* the inner loop over j of LagrangeConstants::compute: <<num, denum>>
RECURSIVE lagrange_inner(_, _, _, _, _, _, _)
lagrange_inner(point, points, i, j, num, denum, field) ==
    IF j > Len(points)
    THEN <<num, denum>>
    ELSE IF j # i
         THEN lagrange_inner(point, points, i, j + 1,
                             mul(field, num, sub(field, points[j], point)),
                             mul(field, denum, sub(field, points[j], points[i])),
                             field)
         ELSE lagrange_inner(point, points, i, j + 1, num, denum, field)

\* a Lagrange constant that multiplies by the denominator
lagrange_fraction_undivided(nd, field) == mul(field, nd[1], nd[2])

\* num * inv(denum)
lagrange_fraction(nd, field) == mul(field, nd[1], inv(field, nd[2]))

LagrangeConstants_compute(point, points, field) ==
    [i \in 1..Len(points) |->
        lagrange_fraction(
            lagrange_inner(point, points, i, 1, one(field), one(field), field), field)]

LagrangeConstants_interpolate(constants, values, field) ==
    IF Len(values) # Len(constants)
    THEN Panic("assert_eq!(values.len(), constants.len())")
    ELSE Ok(weighted_sum(values, constants, field))

lagrange_interpolation_at_point(point, points, values, field) ==
    IF Len(points) # Len(values)
    THEN Panic("assert_eq!(points.len(), values.len())")
    ELSE LagrangeConstants_interpolate(
             LagrangeConstants_compute(point, points, field), values, field)

lagrange_interpolation_at_zero(points, values, field) ==
    lagrange_interpolation_at_point(zero(field), points, values, field)

-----------------------------------------------------------------------------
(* shamir.rs: ShamirSecretSharing *)

ShamirSecretSharing(threshold, share_count, field) ==
    [scheme |-> "shamir", threshold |-> threshold, share_count |-> share_count,
     field |-> field]

shamir_reconstruct_limit(tss) == tss.threshold + 1

\* a polynomial whose coefficients above the secret are all the first
\* random element
shamir_sample_polynomial_repeated(tss, zero_value, random_coefficients) ==
    <<zero_value>> \o [i \in 1..Len(random_coefficients) |-> random_coefficients[1]]

\* random_coefficients is what sample_with_replacement(threshold, rng) returned
shamir_sample_polynomial(tss, zero_value, random_coefficients) ==
    <<zero_value>> \o random_coefficients

\* an evaluation at the ranks 0..share_count - 1 instead of the points
\* 1..share_count
shamir_evaluate_polynomial_at_ranks(tss, coefficients) ==
    [point \in 1..tss.share_count |->
        mod_evaluate_polynomial(coefficients, encode(tss.field, point - 1), tss.field)]

shamir_evaluate_polynomial(tss, coefficients) ==
    [point \in 1..tss.share_count |->
        mod_evaluate_polynomial(coefficients, encode(tss.field, point), tss.field)]

shamir_share(tss, secret, random_coefficients) ==
    shamir_evaluate_polynomial(tss,
        shamir_sample_polynomial(tss, secret, random_coefficients))

\* indices are 0-based ranks, as in the code; sequences are 1-based
shamir_reconstruct(tss, indexList, shareList) ==
    IF Len(shareList) # Len(indexList)
    THEN Panic("assert!(shares.len() == indices.len())")
    ELSE IF Len(shareList) < shamir_reconstruct_limit(tss)
    THEN Panic("assert!(shares.len() >= self.reconstruct_limit())")
    ELSE LET points == [i \in 1..Len(indexList) |->
                           add(tss.field, encode(tss.field, indexList[i]),
                               one(tss.field))]
         IN  lagrange_interpolation_at_zero(points, shareList, tss.field)

-----------------------------------------------------------------------------
(* numtheory/newton.rs *)

\* store is the working buffer of triples <<index_lower, index_upper, coef>>;
\* i and j are the code's 0-based loop counters

\* a divided difference taken the wrong way round
newton_fraction_reversed(points, lower, upper, field) ==
    <<lower[1], upper[2],
      mul(field, sub(field, lower[3], upper[3]),
          inv(field, sub(field, points[upper[2] + 1], points[lower[1] + 1])))>>

\* the body of the inner loop: the new store[i] from store[i - 1] and store[i]
newton_fraction(points, lower, upper, field) ==
    <<lower[1], upper[2],
      mul(field, sub(field, upper[3], lower[3]),
          inv(field, sub(field, points[upper[2] + 1], points[lower[1] + 1])))>>

RECURSIVE newton_inner(_, _, _, _, _)
newton_inner(points, store, j, i, field) ==
    IF i < j
    THEN store
    ELSE newton_inner(points,
                      [store EXCEPT ![i + 1] =
                          newton_fraction(points, store[i], store[i + 1], field)],
                      j, i - 1, field)

RECURSIVE newton_outer(_, _, _, _)
newton_outer(points, store, j, field) ==
    IF j >= Len(store)
    THEN store
    ELSE newton_outer(points,
                      newton_inner(points, store, j, Len(store) - 1, field),
                      j + 1, field)

\* store.iter().map(|&(_, _, v)| v)
newton_coefficients(store) == [k \in 1..Len(store) |-> store[k][3]]

NewtonPolynomial_compute(points, values, field) ==
    IF Len(points) # Len(values)
    THEN Panic("assert_eq!(points.len(), values.len())")
    ELSE Ok([points |-> points,
             coefficients |->
                 newton_coefficients(
                     newton_outer(points,
                         [index \in 1..Len(values) |->
                             <<index - 1, index - 1, values[index]>>],
                         1, field))])

RECURSIVE newton_points_loop(_, _, _, _, _)
newton_points_loop(poly, point, newton_points, i, field) ==
    IF i >= Len(poly.points) - 1
    THEN newton_points
    ELSE newton_points_loop(poly, point,
             Append(newton_points,
                    mul(field, newton_points[i + 1],
                        sub(field, point, poly.points[i + 1]))),
             i + 1, field)

NewtonPolynomial_evaluate(poly, point, field) ==
    weighted_sum(poly.coefficients,
                 newton_points_loop(poly, point, <<one(field)>>, 0, field), field)

-----------------------------------------------------------------------------
(* numtheory/fft.rs; a buffer index past the end is a panic *)

OutOfBounds == Panic("index out of bounds")

RECURSIVE BitAnd(_, _)
BitAnd(a, b) ==
    IF a = 0 \/ b = 0
    THEN 0
    ELSE (a % 2) * (b % 2) + 2 * BitAnd(a \div 2, b \div 2)

Swap(data, i, j) == [data EXCEPT ![i + 1] = data[j + 1], ![j + 1] = data[i + 1]]

\* while target & mask != 0 { target &= !mask; mask >>= 1 }: <<target, mask>>
RECURSIVE fft2_mask_loop(_, _)
fft2_mask_loop(target, mask) ==
    IF BitAnd(target, mask) # 0
    THEN fft2_mask_loop(target - BitAnd(target, mask), mask \div 2)
    ELSE <<target, mask>>

\* target |= mask
fft2_or_mask(tm) == tm[1] + tm[2] - BitAnd(tm[1], tm[2])

RECURSIVE fft2_rearrange_loop(_, _, _)
fft2_rearrange_loop(data, pos, target) ==
    IF pos >= Len(data)
    THEN Ok(data)
    ELSE IF target > pos /\ target >= Len(data)
    THEN OutOfBounds
    ELSE fft2_rearrange_loop(IF target > pos THEN Swap(data, target, pos) ELSE data,
                             pos + 1,
                             fft2_or_mask(fft2_mask_loop(target, Len(data) \div 2)))

fft2_in_place_rearrange(zp, data) == fft2_rearrange_loop(data, 0, 0)

RECURSIVE fft2_pair_loop(_, _, _, _, _)
fft2_pair_loop(zp, data, pair, step, factor) ==
    IF pair >= Len(data)
    THEN Ok(data)
    ELSE IF pair + step >= Len(data)
    THEN OutOfBounds
    ELSE LET x == data[pair + 1]
             y == mul(zp, data[pair + step + 1], factor)
         IN  fft2_pair_loop(zp,
                            [data EXCEPT ![pair + 1] = add(zp, x, y),
                                         ![pair + step + 1] = sub(zp, x, y)],
                            pair + 2 * step, step, factor)

RECURSIVE fft2_group_loop(_, _, _, _, _, _)
fft2_group_loop(zp, data, group, step, factor, factor_stride) ==
    IF group >= step
    THEN Ok(data)
    ELSE AndThen(fft2_pair_loop(zp, data, group, step, factor),
                 LAMBDA d : fft2_group_loop(zp, d, group + 1, step,
                                            mul(zp, factor, factor_stride),
                                            factor_stride))

RECURSIVE fft2_depth_loop(_, _, _, _)
fft2_depth_loop(zp, data, omega, step) ==
    IF step >= Len(data)
    THEN Ok(data)
    ELSE AndThen(fft2_group_loop(zp, data, 0, step, one(zp),
                                 pow(zp, omega, (Len(data) \div step) \div 2)),
                 LAMBDA d : fft2_depth_loop(zp, d, omega, 2 * step))

\* step = 1 << depth
fft2_in_place_compute(zp, data, omega) == fft2_depth_loop(zp, data, omega, 1)

\* a transform that leaves out the bit-reversal permutation
fft2_unordered(zp, data, omega) == fft2_in_place_compute(zp, data, omega)

fft2(zp, data, omega) ==
    AndThen(fft2_in_place_rearrange(zp, data),
            LAMBDA d : fft2_in_place_compute(zp, d, omega))

Scale(zp, data, k) == [i \in 1..Len(data) |-> mul(zp, data[i], k)]

\* an inverse transform that leaves out the division by the length
fft2_inverse_unscaled(zp, data, omega) == fft2(zp, data, inv(zp, omega))

fft2_inverse(zp, data, omega) ==
    AndThen(fft2(zp, data, inv(zp, omega)),
            LAMBDA d : Ok(Scale(zp, d, inv(zp, encode(zp, Len(data))))))

RECURSIVE trigits_len_loop(_, _, _)
trigits_len_loop(n, rslt, value) ==
    IF value < n + 1
    THEN trigits_len_loop(n, rslt + 1, value * 3)
    ELSE rslt

trigits_len(n) == trigits_len_loop(n, 1, 3)

RECURSIVE Pow3(_)
Pow3(x) == IF x = 0 THEN 1 ELSE 3 * Pow3(x - 1)

\* the carry loop over the trigits: <<target, trigits>>
RECURSIVE fft3_trigit_loop(_, _, _, _)
fft3_trigit_loop(target, trigits, powers, pw) ==
    IF pw >= Len(trigits)
    THEN <<target, trigits>>
    ELSE IF trigits[pw + 1] < 2
    THEN <<target + powers[pw + 1], [trigits EXCEPT ![pw + 1] = @ + 1]>>
    ELSE fft3_trigit_loop(target - 2 * powers[pw + 1],
                          [trigits EXCEPT ![pw + 1] = 0], powers, pw + 1)

\* tt is <<target, trigits>>
RECURSIVE fft3_rearrange_loop(_, _, _, _)
fft3_rearrange_loop(data, pos, tt, powers) ==
    IF pos >= Len(data)
    THEN Ok(data)
    ELSE IF tt[1] > pos /\ tt[1] >= Len(data)
    THEN OutOfBounds
    ELSE fft3_rearrange_loop(
             IF tt[1] > pos THEN Swap(data, tt[1], pos) ELSE data,
             pos + 1, fft3_trigit_loop(tt[1], tt[2], powers, 0), powers)

\* (0..trigits_len).map(|x| 3isize.pow(x as u32)).rev()
fft3_powers(tl) == [x \in 1..tl |-> Pow3(tl - x)]

fft3_in_place_rearrange(zp, data) ==
    IF Len(data) = 0
    THEN Panic("attempt to subtract with overflow")
    ELSE fft3_rearrange_loop(data, 0,
                             <<0, [x \in 1..trigits_len(Len(data) - 1) |-> 0]>>,
                             fft3_powers(trigits_len(Len(data) - 1)))

\* the three assignments of the innermost loop, from x, y and z
fft3_butterfly(zp, data, pair, step, x, y, z, big_omega, big_omega_sq) ==
    [data EXCEPT
        ![pair + 1] = add(zp, add(zp, x, y), z),
        ![pair + step + 1] =
            add(zp, add(zp, x, mul(zp, big_omega, y)), mul(zp, big_omega_sq, z)),
        ![pair + 2 * step + 1] =
            add(zp, add(zp, x, mul(zp, big_omega_sq, y)), mul(zp, big_omega, z))]

RECURSIVE fft3_pair_loop(_, _, _, _, _, _, _)
fft3_pair_loop(zp, data, pair, step, factor, big_omega, big_omega_sq) ==
    IF pair >= Len(data)
    THEN Ok(data)
    ELSE IF pair + 2 * step >= Len(data)
    THEN OutOfBounds
    ELSE fft3_pair_loop(zp,
             fft3_butterfly(zp, data, pair, step,
                            data[pair + 1],
                            mul(zp, data[pair + step + 1], factor),
                            mul(zp, data[pair + 2 * step + 1], mul(zp, factor, factor)),
                            big_omega, big_omega_sq),
             pair + 3 * step, step, factor, big_omega, big_omega_sq)

RECURSIVE fft3_group_loop(_, _, _, _, _, _, _, _)
fft3_group_loop(zp, data, group, step, factor, factor_stride, big_omega, big_omega_sq) ==
    IF group >= step
    THEN Ok(data)
    ELSE AndThen(fft3_pair_loop(zp, data, group, step, factor, big_omega, big_omega_sq),
                 LAMBDA d : fft3_group_loop(zp, d, group + 1, step,
                                            mul(zp, factor, factor_stride),
                                            factor_stride, big_omega, big_omega_sq))

RECURSIVE fft3_step_loop(_, _, _, _, _, _)
fft3_step_loop(zp, data, omega, step, big_omega, big_omega_sq) ==
    IF step >= Len(data)
    THEN Ok(data)
    ELSE AndThen(fft3_group_loop(zp, data, 0, step, one(zp),
                                 pow(zp, omega, (Len(data) \div step) \div 3),
                                 big_omega, big_omega_sq),
                 LAMBDA d : fft3_step_loop(zp, d, omega, 3 * step,
                                           big_omega, big_omega_sq))

\* big_omega_sq from big_omega
square(zp, a) == mul(zp, a, a)

fft3_in_place_compute(zp, data, omega) ==
    fft3_step_loop(zp, data, omega, 1,
                   pow(zp, omega, Len(data) \div 3),
                   square(zp, pow(zp, omega, Len(data) \div 3)))

\* a transform that leaves out the trit-reversal permutation
fft3_unordered(zp, data, omega) == fft3_in_place_compute(zp, data, omega)

fft3(zp, data, omega) ==
    AndThen(fft3_in_place_rearrange(zp, data),
            LAMBDA d : fft3_in_place_compute(zp, d, omega))

\* an inverse transform that leaves out the division by the length
fft3_inverse_unscaled(zp, data, omega) == fft3(zp, data, inv(zp, omega))

fft3_inverse(zp, data, omega) ==
    AndThen(fft3(zp, data, inv(zp, omega)),
            LAMBDA d : Ok(Scale(zp, d, inv(zp, encode(zp, Len(data))))))

-----------------------------------------------------------------------------
(* packed/mod.rs: PackedSecretSharing *)

PackedSecretSharing(threshold, share_count, secret_count, field, omega_secrets, omega_shares) ==
    [scheme |-> "packed", threshold |-> threshold, share_count |-> share_count,
     secret_count |-> secret_count, field |-> field,
     omega_secrets |-> omega_secrets, omega_shares |-> omega_shares]

packed_reconstruct_limit(pss) == pss.threshold + pss.secret_count

Zeroes(zp, count) == [i \in 1..count |-> zero(zp)]

\* a sharing that interpolates with the forward transform
packed_interpolate_values_forward(pss, values) ==
    IF Len(values) # packed_reconstruct_limit(pss) + 1
    THEN Panic("assert_eq!(values.len(), self.reconstruct_limit() + 1)")
    ELSE fft2(pss.field, values, pss.omega_secrets)

\* values is the zero, the secrets and the randomness chained
packed_interpolate_values(pss, values) ==
    IF Len(values) # packed_reconstruct_limit(pss) + 1
    THEN Panic("assert_eq!(values.len(), self.reconstruct_limit() + 1)")
    ELSE fft2_inverse(pss.field, values, pss.omega_secrets)

packed_recover_polynomial(pss, secretList, randomList) ==
    packed_interpolate_values(pss, <<zero(pss.field)>> \o secretList \o randomList)

\* randomList is what sample_with_replacement(threshold, rng) returned; the
\* debug_assert! (its indexing included) exists in builds with debug assertions
packed_sample_polynomial(pss, secretList, randomList, debug) ==
    IF Len(secretList) # pss.secret_count
    THEN Panic("assert_eq!(secrets.len(), self.secret_count)")
    ELSE IF debug /\ Len(randomList) < 2
    THEN OutOfBounds
    ELSE IF debug /\ ~neq(pss.field, randomList[1], randomList[2])
    THEN Panic("debug_assert!(self.field.neq(&randomness[0], &randomness[1]))")
    ELSE AndThen(packed_recover_polynomial(pss, secretList, randomList),
                 LAMBDA coefficients :
                    IF Len(coefficients) # packed_reconstruct_limit(pss) + 1
                    THEN Panic("assert_eq!(coefficients.len(), self.reconstruct_limit() + 1)")
                    ELSE Ok(coefficients))

packed_evaluate_polynomial(pss, coefficients) ==
    IF Len(coefficients) # pss.share_count + 1
    THEN Panic("assert_eq!(coefficients.len(), self.share_count + 1)")
    ELSE fft3(pss.field, coefficients, pss.omega_shares)

\* the common tail of share and deterministic_share, from the polynomial on
packed_extend_and_evaluate(pss, poly) ==
    IF Len(poly) # packed_reconstruct_limit(pss) + 1
    THEN Panic("assert_eq!(poly.len(), self.reconstruct_limit() + 1)")
    ELSE IF pss.share_count < packed_reconstruct_limit(pss)
    THEN Panic("attempt to subtract with overflow")
    ELSE AndThen(packed_evaluate_polynomial(pss,
                     poly \o Zeroes(pss.field,
                                    pss.share_count - packed_reconstruct_limit(pss))),
                 LAMBDA evaluated :
                    IF ~eq(pss.field, evaluated[1], zero(pss.field))
                    THEN Panic("assert!(self.field.eq(&shares[0], self.field.zero()))")
                    ELSE IF Len(Tail(evaluated)) # pss.share_count
                    THEN Panic("assert_eq!(shares.len(), self.share_count)")
                    ELSE Ok(Tail(evaluated)))

packed_share(pss, secretList, randomList, debug) ==
    IF Len(secretList) # pss.secret_count
    THEN Panic("assert_eq!(secrets.len(), self.secret_count)")
    ELSE AndThen(packed_sample_polynomial(pss, secretList, randomList, debug),
                 LAMBDA poly : packed_extend_and_evaluate(pss, poly))

packed_deterministic_share(pss, secrets_and_randomness) ==
    AndThen(packed_interpolate_values(pss, <<zero(pss.field)>> \o secrets_and_randomness),
            LAMBDA poly : packed_extend_and_evaluate(pss, poly))

Take(s, count) == SubSeq(s, 1, IF count < Len(s) THEN count ELSE Len(s))

\* the FFT branch of reconstruct / fully_reconstruct up to the values at the
\* powers of omega_secrets
packed_fft_interpolate(pss, shareList) ==
    AndThen(fft3_inverse(pss.field, <<zero(pss.field)>> \o shareList, pss.omega_shares),
            LAMBDA coefficients :
                fft2(pss.field, Take(coefficients, packed_reconstruct_limit(pss) + 1),
                     pss.omega_secrets))

\* the Newton branch: the polynomial's values at omega_secrets^e for e in
\* 1..reconstruct_limit (the end of the range excluded)
packed_newton_interpolate(pss, indexList, shareList) ==
    AndThen(NewtonPolynomial_compute(
                <<one(pss.field)>> \o
                    [i \in 1..Len(indexList) |->
                        pow(pss.field, pss.omega_shares, indexList[i] + 1)],
                <<zero(pss.field)>> \o shareList,
                pss.field),
            LAMBDA poly :
                Ok([e \in 1..(packed_reconstruct_limit(pss) - 1) |->
                      NewtonPolynomial_evaluate(poly,
                          pow(pss.field, pss.omega_secrets, e), pss.field)]))

\* a reconstruct that does not ask for reconstruct_limit shares
packed_reconstruct_unchecked(pss, indexList, shareList) ==
    IF Len(shareList) # Len(indexList)
    THEN Panic("assert!(shares.len() == indices.len())")
    ELSE IF Len(shareList) = pss.share_count
    THEN AndThen(packed_fft_interpolate(pss, shareList),
                 LAMBDA coefficients : Ok(Take(Tail(coefficients), pss.secret_count)))
    ELSE AndThen(packed_newton_interpolate(pss, indexList, shareList),
                 LAMBDA evaluated : Ok(Take(evaluated, pss.secret_count)))

packed_reconstruct(pss, indexList, shareList) ==
    IF Len(shareList) # Len(indexList)
    THEN Panic("assert!(shares.len() == indices.len())")
    ELSE IF Len(shareList) < packed_reconstruct_limit(pss)
    THEN Panic("assert!(shares.len() >= self.reconstruct_limit())")
    ELSE IF Len(shareList) = pss.share_count
    THEN AndThen(packed_fft_interpolate(pss, shareList),
                 LAMBDA coefficients : Ok(Take(Tail(coefficients), pss.secret_count)))
    ELSE AndThen(packed_newton_interpolate(pss, indexList, shareList),
                 LAMBDA evaluated : Ok(Take(evaluated, pss.secret_count)))

packed_fully_reconstruct(pss, indexList, shareList) ==
    IF Len(shareList) # Len(indexList)
    THEN Panic("assert!(shares.len() == indices.len())")
    ELSE IF Len(shareList) < packed_reconstruct_limit(pss)
    THEN Panic("assert!(shares.len() >= self.reconstruct_limit())")
    ELSE IF Len(shareList) = pss.share_count
    THEN AndThen(packed_fft_interpolate(pss, shareList),
                 LAMBDA coefficients : Ok(Tail(coefficients)))
    ELSE packed_newton_interpolate(pss, indexList, shareList)

-----------------------------------------------------------------------------
(* packed/paramgen.rs *)

\* primal::Primes::all() enumerates the primes
IsPrime(p) == p >= 2 /\ \A d \in 2..(p - 1) : p % d # 0

\* a filter that accepts the candidates below min_p too
check_prime_form_unbounded(min_p, n, m, p) ==
    LET q == p - 1
    IN  IF Rem(q, n) # 0 THEN FALSE
        ELSE IF Rem(q, m) # 0 THEN FALSE
        ELSE LET k == Quot(q, n * m)
             IN  IF Rem(k, n) = 0 THEN FALSE
                 ELSE IF Rem(k, m) = 0 THEN FALSE
                 ELSE TRUE

check_prime_form(min_p, n, m, p) ==
    IF p < min_p THEN FALSE
    ELSE LET q == p - 1
         IN  IF Rem(q, n) # 0 THEN FALSE
             ELSE IF Rem(q, m) # 0 THEN FALSE
             ELSE LET k == Quot(q, n * m)
                  IN  IF Rem(k, n) = 0 THEN FALSE
                      ELSE IF Rem(k, m) = 0 THEN FALSE
                      ELSE TRUE

RECURSIVE find_prime(_, _, _, _)
find_prime(min_p, n, m, p) ==
    IF IsPrime(p) /\ check_prime_form(min_p, n, m, p)
    THEN p
    ELSE find_prime(min_p, n, m, p + 1)

\* (p as f64).sqrt().ceil()
RECURSIVE CeilSqrt(_, _)
CeilSqrt(p, b) == IF b * b >= p THEN b ELSE CeilSqrt(p, b + 1)

RECURSIVE factor_loop(_, _, _, _)
factor_loop(p, f, bound, factors) ==
    IF f > bound
    THEN factors
    ELSE factor_loop(p, f + 1, bound,
                     IF p % f = 0 THEN factors \o <<f, p \div f>> ELSE factors)

factor(p) == factor_loop(p, 2, CeilSqrt(p, 0), <<>>)

RECURSIVE find_generator(_, _, _)
find_generator(p, factors, g) ==
    IF g >= p
    THEN Panic("called Option::unwrap() on a None value")
    ELSE IF \A x \in 1..Len(factors) : mod_pow(g, (p - 1) \div factors[x], p) # 1
    THEN Ok(<<p, g>>)
    ELSE find_generator(p, factors, g + 1)

\* the search for g in the field of the prime found
find_field_of(p) == find_generator(p, factor(p - 1), 2)

find_field(min_p, n, m) == find_field_of(find_prime(min_p, n, m, 2))

find_roots(n, m, p, g) ==
    <<mod_pow(g, (p - 1) \div n, p), mod_pow(g, (p - 1) \div m, p)>>

generate_parameters(min_size, n, m) ==
    AndThen(find_field(min_size, n, m),
            LAMBDA pg : Ok(<<pg[1]>> \o find_roots(n, m, pg[1], pg[2])))

\* e.pow(floor(log_e x)) == x, the logarithm taken in f64
RECURSIVE FloorLog(_, _)
FloorLog(x, e) == IF x < e THEN 0 ELSE 1 + FloorLog(x \div e, e)

RECURSIVE IntPow(_, _)
IntPow(e, k) == IF k = 0 THEN 1 ELSE e * IntPow(e, k - 1)

is_power_of(x, e) == IntPow(e, FloorLog(x, e)) = x

new_with_min_size(threshold, secret_count, share_count, min_size) ==
    LET m == threshold + secret_count + 1
        n == share_count + 1
    IN  IF ~is_power_of(m, 2) THEN Panic("assert!(is_power_of(m, 2))")
        ELSE IF ~is_power_of(n, 3) THEN Panic("assert!(is_power_of(n, 3))")
        ELSE IF min_size < share_count + secret_count + threshold + 1
        THEN Panic("assert!(min_size >= share_count + secret_count + threshold + 1)")
        ELSE AndThen(generate_parameters(min_size, m, n),
                     LAMBDA params :
                        Ok(PackedSecretSharing(threshold, share_count, secret_count,
                               NaturalPrimeField(params[1]),
                               encode(NaturalPrimeField(params[1]), params[2]),
                               encode(NaturalPrimeField(params[1]), params[3]))))

packed_new(threshold, secret_count, share_count) ==
    new_with_min_size(threshold, secret_count, share_count,
                      share_count + secret_count + threshold + 1)

-----------------------------------------------------------------------------
(* The parameters and inputs the state machine draws *)

Min(a, b) == IF a <= b THEN a ELSE b

\* the parameter sets PackedSecretSharing::new accepts that also satisfy the
\* documented constraint share_count >= secret_count + threshold
PackedConfigs ==
    {packed_new(c[1], c[2], c[3]).val :
        c \in {x \in (0..MaxThreshold) \X (1..MaxSecretCount) \X (1..MaxShareCount) :
                 x[3] >= x[1] + x[2] /\ packed_new(x[1], x[2], x[3]).ok}}

ShamirPrimes == {3, 5}

\* share_count at least threshold + 1; nothing in the code relates
\* share_count to the prime
ShamirConfigs ==
    {ShamirSecretSharing(c[2], c[3], NaturalPrimeField(c[1])) :
        c \in {x \in ShamirPrimes \X (0..MaxThreshold) \X (1..MaxShamirShareCount) :
                 x[3] >= x[2] + 1}}

Elems(zp) == 0..Min(MaxElem, zp.prime - 1)

Vectors(zp, count) == [1..count -> Elems(zp)]

Select(shareList, indexList) == [i \in 1..Len(indexList) |-> shareList[indexList[i] + 1]]

\* count consecutive ranks from start, wrapping around at n
Window(n, start, count) == [i \in 1..count |-> (start + i - 1) % n]

Reverse(s) == [i \in 1..Len(s) |-> s[Len(s) + 1 - i]]

Windows(n, starts, sizes) == {Window(n, start, c) : start \in starts, c \in sizes}

\* the windows and the same lists backwards
WindowLists(n, starts, sizes) ==
    Windows(n, starts, sizes) \cup {Reverse(w) : w \in Windows(n, starts, sizes)}

RECURSIVE Ascending(_)
Ascending(S) ==
    IF S = {} THEN <<>>
    ELSE LET least == CHOOSE x \in S : \A y \in S : x <= y
         IN  <<least>> \o Ascending(S \ {least})

\* every set of at least limit ranks, in ascending and in descending order
AscendingLists(n, sizes) ==
    {Ascending(S) : S \in {T \in SUBSET (0..(n - 1)) : Cardinality(T) \in sizes}}

SubsetLists(n, limit) ==
    AscendingLists(n, limit..n) \cup {Reverse(l) : l \in AscendingLists(n, limit..n)}

PackedIndexLists(pss) ==
    WindowLists(pss.share_count, 0..(pss.share_count - 1),
                {c \in packed_reconstruct_limit(pss)
                         ..(packed_reconstruct_limit(pss) + MaxExtraShares) :
                    c <= pss.share_count}
                    \cup {pss.share_count})

\* lists of exactly count ranks, for the sum and the product of two sharings
FewLists(pss, count) ==
    WindowLists(pss.share_count,
                {a \in 0..MaxExtraShares : a < pss.share_count},
                {c \in {count} : c <= pss.share_count})

Nothing == [ok |-> FALSE, val |-> "none"]

-----------------------------------------------------------------------------
(* The packed scheme: share or deterministic_share, then reconstruct or
   fully_reconstruct on some of the shares *)

Init ==
    /\ cfg \in PackedConfigs
    /\ debug_assertions \in BOOLEAN
    /\ calls = <<>>
    /\ secrets = <<>> /\ randomness = <<>> /\ shares = Nothing
    /\ secrets2 = <<>> /\ randomness2 = <<>> /\ shares2 = Nothing
    /\ indices = <<>> /\ given = <<>> /\ result = Nothing

Share ==
    /\ calls = <<>>
    /\ \E s \in Vectors(cfg.field, cfg.secret_count),
          r \in Vectors(cfg.field, cfg.threshold) :
          /\ secrets' = s
          /\ randomness' = r
          /\ shares' = packed_share(cfg, s, r, debug_assertions)
    /\ calls' = <<"share">>
    /\ UNCHANGED <<cfg, debug_assertions, secrets2, randomness2, shares2,
                   indices, given, result>>

DeterministicShare ==
    /\ calls = <<>>
    /\ \E v \in Vectors(cfg.field, packed_reconstruct_limit(cfg)) :
          /\ secrets' = SubSeq(v, 1, cfg.secret_count)
          /\ randomness' = SubSeq(v, cfg.secret_count + 1, Len(v))
          /\ shares' = packed_deterministic_share(cfg, v)
    /\ calls' = <<"deterministic_share">>
    /\ UNCHANGED <<cfg, debug_assertions, secrets2, randomness2, shares2,
                   indices, given, result>>

Reconstruct ==
    /\ calls \in {<<"share">>, <<"deterministic_share">>}
    /\ shares.ok
    /\ \E l \in PackedIndexLists(cfg) :
          /\ indices' = l
          /\ given' = Select(shares.val, l)
          /\ result' = packed_reconstruct(cfg, l, Select(shares.val, l))
    /\ calls' = Append(calls, "reconstruct")
    /\ UNCHANGED <<cfg, debug_assertions, secrets, randomness, shares,
                   secrets2, randomness2, shares2>>

FullyReconstruct ==
    /\ calls \in {<<"share">>, <<"deterministic_share">>}
    /\ shares.ok
    /\ \E l \in PackedIndexLists(cfg) :
          /\ indices' = l
          /\ given' = Select(shares.val, l)
          /\ result' = packed_fully_reconstruct(cfg, l, Select(shares.val, l))
    /\ calls' = Append(calls, "fully_reconstruct")
    /\ UNCHANGED <<cfg, debug_assertions, secrets, randomness, shares,
                   secrets2, randomness2, shares2>>

Next == Share \/ DeterministicShare \/ Reconstruct \/ FullyReconstruct

Spec == Init /\ [][Next]_vars

-----------------------------------------------------------------------------
(* The arithmetic of Z_p the claims are stated in, computed independently
   of the library's operations *)

RECURSIVE PowerMod(_, _, _)
PowerMod(b, e, p) == IF e = 0 THEN 1 % p ELSE (b * PowerMod(b, e - 1, p)) % p

InverseMod(a, p) == CHOOSE x \in 1..(p - 1) : (a * x) % p = 1

\* the Lagrange basis polynomial of xs[j] over the points xs[l], l in S, at x
RECURSIVE BasisAt(_, _, _, _, _)
BasisAt(xs, j, S, x, p) ==
    IF S = {}
    THEN 1
    ELSE LET l == CHOOSE e \in S : TRUE
         IN  (((x - xs[l]) % p) * InverseMod((xs[j] - xs[l]) % p, p)
                 * BasisAt(xs, j, S \ {l}, x, p)) % p

\* the polynomial of degree < Len(xs) through (xs[j], ys[j]), at x
RECURSIVE InterpolateAt(_, _, _, _, _)
InterpolateAt(xs, ys, J, x, p) ==
    IF J = {}
    THEN 0
    ELSE LET j == CHOOSE e \in J : TRUE
         IN  (ys[j] * BasisAt(xs, j, (DOMAIN xs) \ {j}, x, p)
                 + InterpolateAt(xs, ys, J \ {j}, x, p)) % p

\* the sharing polynomial f: f(1) = 0, f(omega_secrets^j) the j-th secret,
\* f(omega_secrets^(secret_count + j)) the j-th random element
SharingPolynomialAt(pss, secretList, randomList, x) ==
    InterpolateAt([j \in 1..(packed_reconstruct_limit(pss) + 1) |->
                      PowerMod(pss.omega_secrets, j - 1, pss.field.prime)],
                  <<0>> \o secretList \o randomList,
                  1..(packed_reconstruct_limit(pss) + 1), x, pss.field.prime)

AllRanks(n) == [i \in 1..n |-> i - 1]

IsAscending(l) == \A i \in 1..(Len(l) - 1) : l[i] < l[i + 1]

-----------------------------------------------------------------------------
(* Claims about the packed scheme *)

\* C2 (packed correctness): after share(secrets) returned, reconstruct on a
\* list of distinct ranks with at least threshold + secret_count entries, in
\* any order and possibly all share_count of them, and the shares at those
\* ranks, returns exactly the secrets.
PackedCorrectness ==
    calls = <<"share", "reconstruct">> => result = Ok(secrets)

\* what the code does deliver (C2): the secrets, when the threshold is
\* positive and the ranks are fewer than share_count or ascending
PackedCorrectnessInOrder ==
    (/\ calls = <<"share", "reconstruct">>
     /\ cfg.threshold >= 1
     /\ Len(indices) < cfg.share_count \/ indices = AllRanks(cfg.share_count))
        => result = Ok(secrets)

\* C7 (share structure): share returns share_count values, the i-th (from 0)
\* the value of the sharing polynomial at omega_shares^(i+1); the value at
\* omega_shares^0 that is dropped is zero, so the assertion on shares[0]
\* never fails.
ShareStructure ==
    calls = <<"share">> =>
        /\ shares.ok =>
             /\ Len(shares.val) = cfg.share_count
             /\ \A i \in 1..cfg.share_count :
                   shares.val[i] =
                       SharingPolynomialAt(cfg, secrets, randomness,
                           PowerMod(cfg.omega_shares, i, cfg.field.prime))
        /\ ~shares.ok =>
             shares.val # "assert!(self.field.eq(&shares[0], self.field.zero()))"

ShareStructureWitness ==
    /\ calls = <<"share">>
    /\ shares.ok
    /\ cfg.threshold = 2
    /\ randomness[1] # randomness[2]
    /\ \E i \in 1..cfg.share_count : shares.val[i] > 2

\* C8 (deterministic sharing): fully_reconstruct on all ranks 0..share_count
\* and deterministic_share(v) returns v, and share(secrets) is
\* deterministic_share(secrets ++ randomness) for the randomness it drew.
DeterministicShareRoundTrip ==
    /\ (/\ calls = <<"deterministic_share", "fully_reconstruct">>
        /\ indices = AllRanks(cfg.share_count))
           => result = Ok(secrets \o randomness)
    /\ (calls = <<"share">> /\ shares.ok)
           => shares = packed_deterministic_share(cfg, secrets \o randomness)

DeterministicShareRoundTripWitness ==
    /\ calls = <<"deterministic_share", "fully_reconstruct">>
    /\ indices = AllRanks(cfg.share_count)
    /\ cfg.threshold = 2
    /\ result.ok
    /\ result.val = <<1, 2, 0>>

\* C9 (fully_reconstruct): on the FFT path and on the Newton path alike,
\* fully_reconstruct returns the threshold + secret_count values, the
\* secrets followed by the randomness.
FullyReconstructBothPaths ==
    (/\ Len(calls) = 2
     /\ calls[2] = "fully_reconstruct")
        => result = Ok(secrets \o randomness)

\* what the code does deliver (C9) on the Newton path: all but the last of
\* the values
FullyReconstructNewtonPath ==
    (/\ Len(calls) = 2
     /\ calls[2] = "fully_reconstruct"
     /\ Len(indices) < cfg.share_count)
        => /\ result.ok
           /\ result.val = SubSeq(secrets \o randomness, 1,
                                  packed_reconstruct_limit(cfg) - 1)

-----------------------------------------------------------------------------
(* Shamir's scheme: share, then reconstruct from some of the shares, or look
   at the shares of a coalition of threshold holders *)

InitShamir ==
    /\ cfg \in ShamirConfigs
    /\ debug_assertions \in BOOLEAN
    /\ calls = <<>>
    /\ secrets = <<>> /\ randomness = <<>> /\ shares = Nothing
    /\ secrets2 = <<>> /\ randomness2 = <<>> /\ shares2 = Nothing
    /\ indices = <<>> /\ given = <<>> /\ result = Nothing

ShamirShare ==
    /\ calls = <<>>
    /\ \E s \in Elems(cfg.field), r \in Vectors(cfg.field, cfg.threshold) :
          /\ secrets' = <<s>>
          /\ randomness' = r
          /\ shares' = Ok(shamir_share(cfg, s, r))
    /\ calls' = <<"share">>
    /\ UNCHANGED <<cfg, debug_assertions, secrets2, randomness2, shares2,
                   indices, given, result>>

ShamirReconstruct ==
    /\ calls = <<"share">>
    /\ \E l \in SubsetLists(cfg.share_count, shamir_reconstruct_limit(cfg)) :
          /\ indices' = l
          /\ given' = Select(shares.val, l)
          /\ result' = shamir_reconstruct(cfg, l, Select(shares.val, l))
    /\ calls' = <<"share", "reconstruct">>
    /\ UNCHANGED <<cfg, debug_assertions, secrets, randomness, shares,
                   secrets2, randomness2, shares2>>

\* a coalition of threshold holders puts its shares together
ShamirView ==
    /\ calls = <<"share">>
    /\ \E l \in AscendingLists(cfg.share_count, {cfg.threshold}) :
          /\ indices' = l
          /\ given' = Select(shares.val, l)
    /\ calls' = <<"share", "view">>
    /\ UNCHANGED <<cfg, debug_assertions, secrets, randomness, shares,
                   secrets2, randomness2, shares2, result>>

NextShamir == ShamirShare \/ ShamirReconstruct \/ ShamirView

SpecShamir == InitShamir /\ [][NextShamir]_vars

\* the number of outcomes of the random source with which share(secret)
\* gives the coalition indexList the shares view
ShamirViewCount(tss, secret, indexList, view) ==
    Cardinality({r \in sample_with_replacement(tss.field, tss.threshold) :
                    Select(shamir_share(tss, secret, r), indexList) = view})

\* C1 (Shamir correctness): reconstruct on any list of distinct ranks with at
\* least threshold + 1 entries, in any order, and the shares at those ranks
\* returns the secret that was shared.
ShamirCorrectness ==
    (calls = <<"share", "reconstruct">> /\ cfg.share_count < cfg.field.prime)
        => result = Ok(secrets[1])

ShamirCorrectnessWitness ==
    /\ calls = <<"share", "reconstruct">>
    /\ cfg.threshold = 2
    /\ cfg.share_count < cfg.field.prime
    /\ Len(indices) = 3
    /\ ~IsAscending(indices)
    /\ randomness = <<1, 2>>
    /\ result = Ok(2)

SameForEverySecret(tss, indexList, view, count) ==
    \A s \in 0..(tss.field.prime - 1) : ShamirViewCount(tss, s, indexList, view) = count

-----------------------------------------------------------------------------
(* Two sharings under the same parameters, then reconstruct on the pointwise
   sum or product of the shares *)

ShareSecond ==
    /\ calls = <<"share">>
    /\ shares.ok
    /\ \E s \in Vectors(cfg.field, cfg.secret_count),
          r \in Vectors(cfg.field, cfg.threshold) :
          /\ secrets2' = s
          /\ randomness2' = r
          /\ shares2' = packed_share(cfg, s, r, debug_assertions)
    /\ calls' = <<"share", "share">>
    /\ UNCHANGED <<cfg, debug_assertions, secrets, randomness, shares,
                   indices, given, result>>

\* the shares of the sum and of the product, as the holders compute them
pointwise_add(zp, a, b) == [i \in 1..Len(a) |-> add(zp, a[i], b[i])]

pointwise_mul(zp, a, b) == [i \in 1..Len(a) |-> mul(zp, a[i], b[i])]

ReconstructSum ==
    /\ calls = <<"share", "share">>
    /\ shares2.ok
    /\ \E l \in FewLists(cfg, packed_reconstruct_limit(cfg)) :
          /\ indices' = l
          /\ given' = Select(pointwise_add(cfg.field, shares.val, shares2.val), l)
          /\ result' = packed_reconstruct(cfg, l,
                           Select(pointwise_add(cfg.field, shares.val, shares2.val), l))
    /\ calls' = <<"share", "share", "reconstruct_sum">>
    /\ UNCHANGED <<cfg, debug_assertions, secrets, randomness, shares,
                   secrets2, randomness2, shares2>>

ReconstructProduct ==
    /\ calls = <<"share", "share">>
    /\ shares2.ok
    /\ \E l \in FewLists(cfg, 2 * packed_reconstruct_limit(cfg)) :
          /\ indices' = l
          /\ given' = Select(pointwise_mul(cfg.field, shares.val, shares2.val), l)
          /\ result' = packed_reconstruct(cfg, l,
                           Select(pointwise_mul(cfg.field, shares.val, shares2.val), l))
    /\ calls' = <<"share", "share", "reconstruct_product">>
    /\ UNCHANGED <<cfg, debug_assertions, secrets, randomness, shares,
                   secrets2, randomness2, shares2>>

\* reconstruct on the first c entries of the product, for each c from
\* 2 * (threshold + secret_count) to share_count
ReconstructProductPrefix ==
    /\ calls = <<"share", "share">>
    /\ shares2.ok
    /\ \E c \in (2 * packed_reconstruct_limit(cfg))..cfg.share_count :
          /\ indices' = [i \in 1..c |-> i - 1]
          /\ given' = SubSeq(pointwise_mul(cfg.field, shares.val, shares2.val), 1, c)
          /\ result' = packed_reconstruct(cfg, [i \in 1..c |-> i - 1],
                           SubSeq(pointwise_mul(cfg.field, shares.val, shares2.val), 1, c))
    /\ calls' = <<"share", "share", "reconstruct_product_prefix">>
    /\ UNCHANGED <<cfg, debug_assertions, secrets, randomness, shares,
                   secrets2, randomness2, shares2>>

NextHomomorphic ==
    \/ Share
    \/ ShareSecond
    \/ ReconstructSum
    \/ ReconstructProduct
    \/ ReconstructProductPrefix

SpecHomomorphic == Init /\ [][NextHomomorphic]_vars

\* C5 (additive homomorphism): reconstruct on reconstruct_limit entries of
\* the pointwise sum of two share vectors returns the pointwise sum of the
\* two secret vectors.
AdditiveHomomorphism ==
    calls = <<"share", "share", "reconstruct_sum">>
        => result = Ok(pointwise_add(cfg.field, secrets, secrets2))

\* what the code does deliver (C5): the sum when the threshold is positive
AdditiveHomomorphismPositiveThreshold ==
    (calls = <<"share", "share", "reconstruct_sum">> /\ cfg.threshold >= 1)
        => result = Ok(pointwise_add(cfg.field, secrets, secrets2))

\* C6 (multiplicative homomorphism): with share_count >= 2 * (threshold +
\* secret_count), reconstruct on 2 * (threshold + secret_count) entries of
\* the pointwise product of two share vectors returns the pointwise product
\* of the two secret vectors.
MultiplicativeHomomorphism ==
    (/\ calls = <<"share", "share", "reconstruct_product">>
     /\ cfg.share_count >= 2 * packed_reconstruct_limit(cfg))
        => result = Ok(pointwise_mul(cfg.field, secrets, secrets2))

\* what the code does deliver (C6): the product when the threshold is positive
MultiplicativeHomomorphismPositiveThreshold ==
    (calls = <<"share", "share", "reconstruct_product">> /\ cfg.threshold >= 1)
        => result = Ok(pointwise_mul(cfg.field, secrets, secrets2))

-----------------------------------------------------------------------------
(* The packed scheme: share, then a coalition of threshold holders puts its
   shares together *)

View ==
    /\ calls = <<"share">>
    /\ shares.ok
    /\ \E l \in Windows(cfg.share_count, 0..(cfg.share_count - 1), {cfg.threshold}) :
          /\ indices' = l
          /\ given' = Select(shares.val, l)
    /\ calls' = <<"share", "view">>
    /\ UNCHANGED <<cfg, debug_assertions, secrets, randomness, shares,
                   secrets2, randomness2, shares2, result>>

NextView == Share \/ View

SpecView == Init /\ [][NextView]_vars

\* share returned and gave the coalition indexList the shares view
Shows(outcome, indexList, view) == outcome.ok /\ Select(outcome.val, indexList) = view

\* what share does with every outcome of the random source: the parameters,
\* the build, the secrets, the outcome of sample_with_replacement and what
\* share returns
Sharings ==
    UNION {{<<c[1], c[2], s, r, packed_share(c[1], s, r, c[2])>> :
               s \in Vectors(c[1].field, c[1].secret_count),
               r \in sample_with_replacement(c[1].field, c[1].threshold)} :
           c \in PackedConfigs \X BOOLEAN}

\* the number of outcomes of the random source with which share(secretList)
\* gives the coalition indexList the shares view
PackedViewCount(pss, debug, secretList, indexList, view) ==
    Cardinality({x \in Sharings :
                    /\ x[1] = pss /\ x[2] = debug /\ x[3] = secretList
                    /\ Shows(x[5], indexList, view)})

SameForAllSecrets(pss, debug, indexList, view, count) ==
    \A s \in Vectors(pss.field, pss.secret_count) :
        PackedViewCount(pss, debug, s, indexList, view) = count

\* C4 (packed privacy): for every coalition of threshold holders, the shares
\* it sees are produced by the same number of outcomes of the random source
\* whatever the secrets are.
PackedPrivacy ==
    calls = <<"share", "view">> =>
        SameForAllSecrets(cfg, debug_assertions, indices, given,
            PackedViewCount(cfg, debug_assertions, secrets, indices, given))

\* what the code does deliver (C4): privacy in builds without debug assertions
PackedPrivacyRelease ==
    (calls = <<"share", "view">> /\ ~debug_assertions) =>
        SameForAllSecrets(cfg, FALSE, indices, given,
            PackedViewCount(cfg, FALSE, secrets, indices, given))

-----------------------------------------------------------------------------
(* The field backends: one operation on elements of the field *)

FieldPrimes == {5, 7, 17, 41}

InitField ==
    /\ cfg \in {NaturalPrimeField(p) : p \in FieldPrimes}
    /\ debug_assertions \in BOOLEAN
    /\ calls = <<>>
    /\ secrets = <<>> /\ randomness = <<>> /\ shares = Nothing
    /\ secrets2 = <<>> /\ randomness2 = <<>> /\ shares2 = Nothing
    /\ indices = <<>> /\ given = <<>> /\ result = Nothing

\* an i64 is an element of the natural backend; the ones tried are the
\* multiples of the prime and their neighbours
FieldInv ==
    /\ calls = <<>>
    /\ \E a \in (-cfg.prime)..cfg.prime :
          /\ given' = <<a>>
          /\ result' = Ok(inv(cfg, a))
    /\ calls' = <<"inv">>
    /\ UNCHANGED <<cfg, debug_assertions, secrets, randomness, shares,
                   secrets2, randomness2, shares2, indices>>

NextField == FieldInv

SpecField == InitField /\ [][NextField]_vars

\* C10 (inverse of zero): inv on an element congruent to zero fails; it
\* never returns a field element.
InverseOfZeroFails ==
    (calls = <<"inv">> /\ eq(cfg, given[1], zero(cfg))) => ~result.ok

-----------------------------------------------------------------------------
(* Interpolation on its own: the values of a polynomial at a list of points
   go through NewtonPolynomial::compute / evaluate and through
   lagrange_interpolation_at_point.  The points are any field elements, equal
   ones included. *)

InterpolatePrimes == {7}

\* the least, a middle and the greatest element
Extremes(zp) == {0, zp.prime \div 2, zp.prime - 1}

InitInterpolate ==
    /\ cfg \in {NaturalPrimeField(p) : p \in InterpolatePrimes}
    /\ debug_assertions \in BOOLEAN
    /\ calls = <<>>
    /\ secrets = <<>> /\ randomness = <<>> /\ shares = Nothing
    /\ secrets2 = <<>> /\ randomness2 = <<>> /\ shares2 = Nothing
    /\ indices = <<>> /\ given = <<>> /\ result = Nothing

newton_interpolation_at_point(point, points, values, field) ==
    AndThen(NewtonPolynomial_compute(points, values, field),
            LAMBDA poly : Ok(NewtonPolynomial_evaluate(poly, point, field)))

\* secrets holds the coefficients of the polynomial, indices the points,
\* given its values at the points, randomness the point asked for, shares
\* the answer of the Newton form and result the answer of the Lagrange form
Interpolate ==
    /\ calls = <<>>
    /\ \E d \in 1..(MaxThreshold + 1) :
          \E coefficients \in [1..d -> Extremes(cfg)], points \in Vectors(cfg, d),
             x \in Extremes(cfg) :
             /\ secrets' = coefficients
             /\ indices' = points
             /\ given' = [i \in 1..d |->
                             mod_evaluate_polynomial(coefficients, points[i], cfg)]
             /\ randomness' = <<x>>
             /\ shares' = newton_interpolation_at_point(x, points, given', cfg)
             /\ result' = lagrange_interpolation_at_point(x, points, given', cfg)
    /\ calls' = <<"interpolate">>
    /\ UNCHANGED <<cfg, debug_assertions, secrets2, randomness2, shares2>>

NextInterpolate == Interpolate

SpecInterpolate == InitInterpolate /\ [][NextInterpolate]_vars

PairwiseDistinct(l) == \A i, j \in 1..Len(l) : i # j => l[i] # l[j]

\* the value at x of the polynomial with the coefficients c, lowest first
RECURSIVE PolynomialAt(_, _, _)
PolynomialAt(c, x, p) ==
    IF c = <<>> THEN 0
    ELSE (c[Len(c)] * PowerMod(x, Len(c) - 1, p)
             + PolynomialAt(SubSeq(c, 1, Len(c) - 1), x, p)) % p

\* C11 (duplicate points): interpolation over points that are not pairwise
\* distinct fails; neither the Newton form nor the Lagrange form returns a
\* value.
DuplicatePointsFail ==
    (calls = <<"interpolate">> /\ ~PairwiseDistinct(indices))
        => (~shares.ok /\ ~result.ok)

-----------------------------------------------------------------------------
(* The transforms on their own: fft2 / fft3 on a buffer of any length, and
   the inverse transforms on a buffer of any length or on what the forward
   transform returned *)

MaxBufferLen == 4

\* fft3 / fft3_inverse as built.  Overflow checks come with debug
\* assertions; without them data.len() - 1 wraps to usize::MAX on the empty
\* buffer, n + 1 wraps to 0 in trigits_len, and no loop of fft3 runs
fft3_built(debug, zp, data, omega) ==
    IF ~debug /\ Len(data) = 0 THEN Ok(data) ELSE fft3(zp, data, omega)

fft3_inverse_built(debug, zp, data, omega) ==
    IF ~debug /\ Len(data) = 0 THEN Ok(data) ELSE fft3_inverse(zp, data, omega)

\* 13 - 1 = 4 * 3 and 73 - 1 = 8 * 9
FftPrimes == {13, 73}

PrimitiveRoots(zp, L) ==
    {w \in 1..(zp.prime - 1) :
        /\ L >= 1
        /\ PowerMod(w, L, zp.prime) = 1
        /\ \A k \in 1..(L - 1) : PowerMod(w, k, zp.prime) # 1}

\* the roots of unity of order L where there are any, else some elements
Omegas(zp, L) ==
    IF PrimitiveRoots(zp, L) # {} THEN PrimitiveRoots(zp, L) ELSE Elems(zp) \ {0}

\* every buffer up to MaxBufferLen, and the buffers of zeroes and ones of
\* length 8 and 9 where the field has roots of unity of that order
Buffers(zp) ==
    UNION {Vectors(zp, L) : L \in 0..MaxBufferLen}
    \cup UNION {[1..L -> 0..1] : L \in {l \in {8, 9} : PrimitiveRoots(zp, l) # {}}}

InitFft ==
    /\ cfg \in {NaturalPrimeField(p) : p \in FftPrimes}
    /\ debug_assertions \in BOOLEAN
    /\ calls = <<>>
    /\ secrets = <<>> /\ randomness = <<>> /\ shares = Nothing
    /\ secrets2 = <<>> /\ randomness2 = <<>> /\ shares2 = Nothing
    /\ indices = <<>> /\ given = <<>> /\ result = Nothing

\* given is the buffer passed in, randomness the omega, shares what the
\* forward transform left in the buffer, result what the inverse left
Fft2 ==
    /\ calls = <<>>
    /\ \E d \in Buffers(cfg) : \E w \in Omegas(cfg, Len(d)) :
          /\ given' = d
          /\ randomness' = <<w>>
          /\ shares' = fft2(cfg, d, w)
    /\ calls' = <<"fft2">>
    /\ UNCHANGED <<cfg, debug_assertions, secrets, secrets2, randomness2,
                   shares2, indices, result>>

Fft3 ==
    /\ calls = <<>>
    /\ \E d \in Buffers(cfg) : \E w \in Omegas(cfg, Len(d)) :
          /\ given' = d
          /\ randomness' = <<w>>
          /\ shares' = fft3_built(debug_assertions, cfg, d, w)
    /\ calls' = <<"fft3">>
    /\ UNCHANGED <<cfg, debug_assertions, secrets, secrets2, randomness2,
                   shares2, indices, result>>

\* on a fresh buffer, or on the buffer fft2 returned with the same omega
Fft2Inverse ==
    /\ calls \in {<<>>, <<"fft2">>}
    /\ calls = <<"fft2">> => shares.ok
    /\ \E d \in IF calls = <<>> THEN Buffers(cfg) ELSE {shares.val} :
          \E w \in IF calls = <<>> THEN Omegas(cfg, Len(d)) ELSE {randomness[1]} :
             /\ given' = IF calls = <<>> THEN d ELSE given
             /\ randomness' = <<w>>
             /\ result' = fft2_inverse(cfg, d, w)
    /\ calls' = Append(calls, "fft2_inverse")
    /\ UNCHANGED <<cfg, debug_assertions, secrets, shares, secrets2,
                   randomness2, shares2, indices>>

Fft3Inverse ==
    /\ calls \in {<<>>, <<"fft3">>}
    /\ calls = <<"fft3">> => shares.ok
    /\ \E d \in IF calls = <<>> THEN Buffers(cfg) ELSE {shares.val} :
          \E w \in IF calls = <<>> THEN Omegas(cfg, Len(d)) ELSE {randomness[1]} :
             /\ given' = IF calls = <<>> THEN d ELSE given
             /\ randomness' = <<w>>
             /\ result' = fft3_inverse_built(debug_assertions, cfg, d, w)
    /\ calls' = Append(calls, "fft3_inverse")
    /\ UNCHANGED <<cfg, debug_assertions, secrets, shares, secrets2,
                   randomness2, shares2, indices>>

NextFft == Fft2 \/ Fft3 \/ Fft2Inverse \/ Fft3Inverse

SpecFft == InitFft /\ [][NextFft]_vars

RECURSIVE IsPower(_, _)
IsPower(n, radix) ==
    \/ n = 1
    \/ n > 1 /\ n % radix = 0 /\ IsPower(n \div radix, radix)

\* C12 (length errors): fft2 and fft2_inverse on a buffer whose length is not
\* a power of two, and fft3 and fft3_inverse on a buffer whose length is not
\* a power of three, the empty buffer included, fail; they never return
\* normally.
FftLengthErrors ==
    /\ (calls = <<"fft2">> /\ ~IsPower(Len(given), 2)) => ~shares.ok
    /\ (calls = <<"fft2_inverse">> /\ ~IsPower(Len(given), 2)) => ~result.ok
    /\ (calls = <<"fft3">> /\ ~IsPower(Len(given), 3)) => ~shares.ok
    /\ (calls = <<"fft3_inverse">> /\ ~IsPower(Len(given), 3)) => ~result.ok

\* the same with the empty buffer left out
FftLengthErrorsNonEmpty ==
    Len(given) > 0 => FftLengthErrors


-----------------------------------------------------------------------------
(* Claims about interpolation on pairwise distinct points *)

\* C19 (Newton/Lagrange consistency): for a polynomial P of degree < d and d
\* pairwise distinct points, NewtonPolynomial::compute(points, P(points))
\* evaluated at x and lagrange_interpolation_at_point(x, points, P(points))
\* both equal P(x), for every field element x tried.
NewtonLagrangeConsistency ==
    (calls = <<"interpolate">> /\ PairwiseDistinct(indices))
        => /\ shares = Ok(PolynomialAt(secrets, randomness[1], cfg.prime))
           /\ result = Ok(PolynomialAt(secrets, randomness[1], cfg.prime))

\* three distinct points, a polynomial of degree two, asked away from the
\* points
NewtonLagrangeConsistencyWitness ==
    /\ calls = <<"interpolate">>
    /\ Len(indices) = 3 /\ PairwiseDistinct(indices)
    /\ secrets[3] # 0
    /\ \A i \in 1..3 : indices[i] # randomness[1]
    /\ shares.ok /\ shares = result
    /\ shares.val = PolynomialAt(secrets, randomness[1], cfg.prime)

-----------------------------------------------------------------------------
(* Calls with inputs of any length: the lists handed to share,
   deterministic_share, reconstruct and fully_reconstruct need not have the
   lengths the documentation asks for *)

InitAnyLength ==
    /\ cfg \in PackedConfigs \cup ShamirConfigs
    /\ debug_assertions \in BOOLEAN
    /\ calls = <<>>
    /\ secrets = <<>> /\ randomness = <<>> /\ shares = Nothing
    /\ secrets2 = <<>> /\ randomness2 = <<>> /\ shares2 = Nothing
    /\ indices = <<>> /\ given = <<>> /\ result = Nothing

\* the first count ranks, and count copies of one element
Ranks(count) == [i \in 1..count |-> i - 1]

Copies(e, count) == [i \in 1..count |-> e]

ShareAnyLength ==
    /\ calls = <<>>
    /\ cfg.scheme = "packed"
    /\ \E n \in 0..(cfg.secret_count + 1) :
          \E s \in Vectors(cfg.field, n), r \in Vectors(cfg.field, cfg.threshold) :
             /\ secrets' = s
             /\ randomness' = r
             /\ result' = packed_share(cfg, s, r, debug_assertions)
    /\ calls' = <<"share">>
    /\ UNCHANGED <<cfg, debug_assertions, shares, secrets2, randomness2,
                   shares2, indices, given>>

DeterministicShareAnyLength ==
    /\ calls = <<>>
    /\ cfg.scheme = "packed"
    /\ \E n \in 0..(packed_reconstruct_limit(cfg) + 1) :
          \E v \in Vectors(cfg.field, n) :
             /\ given' = v
             /\ result' = packed_deterministic_share(cfg, v)
    /\ calls' = <<"deterministic_share">>
    /\ UNCHANGED <<cfg, debug_assertions, secrets, randomness, shares,
                   secrets2, randomness2, shares2, indices>>

ReconstructAnyLength ==
    /\ calls = <<>>
    /\ cfg.scheme = "packed"
    /\ \E a, b \in 0..cfg.share_count : \E e \in Elems(cfg.field) :
          /\ indices' = Ranks(a)
          /\ given' = Copies(e, b)
          /\ result' = packed_reconstruct(cfg, Ranks(a), Copies(e, b))
    /\ calls' = <<"reconstruct">>
    /\ UNCHANGED <<cfg, debug_assertions, secrets, randomness, shares,
                   secrets2, randomness2, shares2>>

FullyReconstructAnyLength ==
    /\ calls = <<>>
    /\ cfg.scheme = "packed"
    /\ \E a, b \in 0..cfg.share_count : \E e \in Elems(cfg.field) :
          /\ indices' = Ranks(a)
          /\ given' = Copies(e, b)
          /\ result' = packed_fully_reconstruct(cfg, Ranks(a), Copies(e, b))
    /\ calls' = <<"fully_reconstruct">>
    /\ UNCHANGED <<cfg, debug_assertions, secrets, randomness, shares,
                   secrets2, randomness2, shares2>>

ShamirReconstructAnyLength ==
    /\ calls = <<>>
    /\ cfg.scheme = "shamir"
    /\ \E a, b \in 0..cfg.share_count : \E e \in Elems(cfg.field) :
          /\ indices' = Ranks(a)
          /\ given' = Copies(e, b)
          /\ result' = shamir_reconstruct(cfg, Ranks(a), Copies(e, b))
    /\ calls' = <<"reconstruct">>
    /\ UNCHANGED <<cfg, debug_assertions, secrets, randomness, shares,
                   secrets2, randomness2, shares2>>

NextAnyLength ==
    \/ ShareAnyLength
    \/ DeterministicShareAnyLength
    \/ ReconstructAnyLength
    \/ FullyReconstructAnyLength
    \/ ShamirReconstructAnyLength

SpecAnyLength == InitAnyLength /\ [][NextAnyLength]_vars

\* reconstruct_limit of either scheme
ReconstructLimit(scheme) ==
    IF scheme.scheme = "packed"
    THEN scheme.threshold + scheme.secret_count
    ELSE scheme.threshold + 1

\* the failures of the assertions on the lengths of the inputs
PreconditionFailures ==
    {Panic("assert_eq!(secrets.len(), self.secret_count)"),
     Panic("assert_eq!(values.len(), self.reconstruct_limit() + 1)"),
     Panic("assert!(shares.len() == indices.len())"),
     Panic("assert!(shares.len() >= self.reconstruct_limit())")}

\* C13 (precondition enforcement): packed share with |secrets| # secret_count,
\* deterministic_share with an input length # threshold + secret_count, and
\* reconstruct / fully_reconstruct (packed) and reconstruct (Shamir) with
\* |indices| # |shares| or with fewer than reconstruct_limit shares all stop
\* at an assertion on the lengths and return no result.
PreconditionsEnforced ==
    /\ (calls = <<"share">> /\ Len(secrets) # cfg.secret_count)
          => result \in PreconditionFailures
    /\ (calls = <<"deterministic_share">>
           /\ Len(given) # cfg.threshold + cfg.secret_count)
          => result \in PreconditionFailures
    /\ (calls \in {<<"reconstruct">>, <<"fully_reconstruct">>}
           /\ (Len(indices) # Len(given) \/ Len(given) < ReconstructLimit(cfg)))
          => result \in PreconditionFailures

\* packed reconstruct was given as many indices as shares, one fewer than
\* reconstruct_limit, and stopped
PreconditionsEnforcedWitness ==
    /\ calls = <<"reconstruct">>
    /\ cfg.scheme = "packed"
    /\ Len(indices) = Len(given)
    /\ Len(given) = ReconstructLimit(cfg) - 1
    /\ result = Panic("assert!(shares.len() >= self.reconstruct_limit())")

-----------------------------------------------------------------------------
(* Claims about the values of the Shamir shares *)

\* C20 (Shamir share values): share(secret) evaluates the coefficient vector
\* <<secret>> \o randomness, of length threshold + 1 with the secret at
\* entry 0, and returns exactly share_count values, the one at rank i being
\* sum_j c[j] * (i + 1)^j mod p; with p = 1613 and the coefficients
\* [1234, 166, 94], 6 shares are [1494, 329, 965, 176, 1188, 775].
ShamirShareValues ==
    /\ shamir_evaluate_polynomial(
           ShamirSecretSharing(2, 6, NaturalPrimeField(1613)), <<1234, 166, 94>>)
         = <<1494, 329, 965, 176, 1188, 775>>
    /\ calls = <<"share">> =>
          /\ Len(shamir_sample_polynomial(cfg, secrets[1], randomness))
                = cfg.threshold + 1
          /\ shamir_sample_polynomial(cfg, secrets[1], randomness)[1] = secrets[1]
          /\ shares.ok
          /\ Len(shares.val) = cfg.share_count
          /\ \A i \in 0..(cfg.share_count - 1) :
                shares.val[i + 1] =
                    PolynomialAt(<<secrets[1]>> \o randomness, i + 1,
                                 cfg.field.prime)

\* a polynomial of degree two was shared
ShamirShareValuesWitness ==
    /\ calls = <<"share">>
    /\ cfg.threshold = 2 /\ randomness[2] # 0
    /\ cfg.share_count >= 3
    /\ shares.ok /\ Len(shares.val) = cfg.share_count
    /\ shares.val[3] =
          PolynomialAt(<<secrets[1]>> \o randomness, 3, cfg.field.prime)

-----------------------------------------------------------------------------
(* 64-bit arithmetic.  A u64, or an i64 in two's complement, is the sequence
   of its eight bytes, the lowest first; a u32 taken as u64 has zeroes in
   the upper four. *)

RECURSIVE bytes(_, _)
bytes(x, count) ==
    IF count = 0 THEN <<>> ELSE <<x % 256>> \o bytes(x \div 256, count - 1)

\* x as u64, for 0 <= x < 2^31
u64(x) == bytes(x, 8)

RECURSIVE add_carry(_, _, _, _)
add_carry(a, b, i, carry) ==
    IF i > 8 THEN <<>>
    ELSE <<(a[i] + b[i] + carry) % 256>>
            \o add_carry(a, b, i + 1, (a[i] + b[i] + carry) \div 256)

wrapping_add(a, b) == add_carry(a, b, 1, 0)

wrapping_neg(a) == wrapping_add([i \in 1..8 |-> 255 - a[i]], u64(1))

wrapping_sub(a, b) == wrapping_add(a, wrapping_neg(b))

\* x as i64
i64(x) == IF x >= 0 THEN u64(x) ELSE wrapping_neg(u64(-x))

\* the sum of the byte products that land in byte k
RECURSIVE mul_column(_, _, _, _)
mul_column(a, b, k, i) ==
    IF i > k THEN 0 ELSE a[i] * b[k + 1 - i] + mul_column(a, b, k, i + 1)

RECURSIVE mul_carry(_, _, _, _)
mul_carry(a, b, k, carry) ==
    IF k > 8 THEN <<>>
    ELSE <<(mul_column(a, b, k, 1) + carry) % 256>>
            \o mul_carry(a, b, k + 1, (mul_column(a, b, k, 1) + carry) \div 256)

wrapping_mul(a, b) == mul_carry(a, b, 1, 0)

\* (a as u32) as u64, a >> 32 and a << 32
low32(a) == [i \in 1..8 |-> IF i <= 4 THEN a[i] ELSE 0]

shr32(a) == [i \in 1..8 |-> IF i <= 4 THEN a[i + 4] ELSE 0]

shl32(a) == [i \in 1..8 |-> IF i <= 4 THEN 0 ELSE a[i - 4]]

\* the value of a u64 below 2^31
RECURSIVE u64_value(_, _)
u64_value(a, i) == IF i > 8 THEN 0 ELSE a[i] + 256 * u64_value(a, i + 1)

\* a u64 divided by n < 2^23, by long division from the highest byte:
\* the remainder of the bytes above byte i, then the quotient and a % n
RECURSIVE rem_above(_, _, _)
rem_above(a, n, i) ==
    IF i >= 8 THEN 0 ELSE (rem_above(a, n, i + 1) * 256 + a[i + 1]) % n

u64_div(a, n) == [i \in 1..8 |-> (rem_above(a, n, i) * 256 + a[i]) \div n]

u64_rem(a, n) == rem_above(a, n, 0)

\* an i64 % 2^32: the remainder takes the sign of the dividend
i64_rem_r(a) ==
    IF a[8] >= 128
    THEN wrapping_neg(low32(wrapping_neg(a)))
    ELSE low32(a)

-----------------------------------------------------------------------------
(* fields/montgomery.rs: MontgomeryField32, elements are Value(u32) *)

\* r = 1u64 << 32
montgomery_r == shl32(u64(1))

\* gcd(r, prime): a / b and r.1 - r.2 * n are 64-bit operations, the inner
\* call gcd(prime, r % prime) is not
montgomery_gcd_r(prime) ==
    <<gcd(prime, u64_rem(montgomery_r, prime))[1],
      gcd(prime, u64_rem(montgomery_r, prime))[3],
      wrapping_sub(i64(gcd(prime, u64_rem(montgomery_r, prime))[2]),
                   wrapping_mul(i64(gcd(prime, u64_rem(montgomery_r, prime))[3]),
                                u64_div(montgomery_r, prime)))>>

\* mod_inverse(prime, r): k2 = prime % r is prime
montgomery_mod_inverse_r(prime) ==
    i64_rem_r(wrapping_add(montgomery_r, montgomery_gcd_r(prime)[3]))

\* mod_inverse(r, prime) and mod_pow(r % prime, 3, prime): mod_inverse
\* starts with k % prime
MontgomeryField32(prime) ==
    [backend |-> "montgomery",
     n |-> prime,
     r_inv |-> IF mod_inverse(u64_rem(montgomery_r, prime), prime) < 0
               THEN mod_inverse(u64_rem(montgomery_r, prime), prime) + prime
               ELSE mod_inverse(u64_rem(montgomery_r, prime), prime),
     n_quote |-> low32(wrapping_sub(montgomery_r, montgomery_mod_inverse_r(prime))),
     r_cube |-> mod_pow(u64_rem(montgomery_r, prime), 3, prime)]

\* a + m * n stays below 2^64 for n < 2^31
redc(zp, a) ==
    LET m == low32(wrapping_mul(low32(a), zp.n_quote))
        t == u64_value(low32(shr32(wrapping_add(a, wrapping_mul(m, u64(zp.n))))), 1)
    IN  IF t >= zp.n THEN t - zp.n ELSE t

montgomery_encode(zp, a) == u64_rem(shl32(u64(a)), zp.n)

montgomery_decode(zp, a) == (a * zp.r_inv) % zp.n

montgomery_zero(zp) == montgomery_encode(zp, 0)

montgomery_one(zp) == montgomery_encode(zp, 1)

montgomery_add(zp, a, b) == IF a + b > zp.n THEN a + b - zp.n ELSE a + b

montgomery_sub(zp, a, b) == IF a > b THEN a - b ELSE a + zp.n - b

\* a product that is not brought back to Montgomery form
montgomery_mul_unreduced(zp, a, b) == (a * b) % zp.n

montgomery_mul(zp, a, b) == redc(zp, wrapping_mul(u64(a), u64(b)))

montgomery_inv(zp, a) ==
    redc(zp, wrapping_mul(u64(mod_inverse(a, zp.n)), u64(zp.r_cube)))

montgomery_eq(zp, lhs, rhs) == lhs % zp.n = rhs % zp.n

RECURSIVE montgomery_pow_loop(_, _, _, _)
montgomery_pow_loop(zp, x, e, acc) ==
    IF e > 0
    THEN montgomery_pow_loop(zp, montgomery_mul(zp, x, x), e \div 2,
                             IF e % 2 = 0 THEN acc ELSE montgomery_mul(zp, acc, x))
    ELSE acc

montgomery_pow(zp, a, e) == montgomery_pow_loop(zp, a, e, montgomery_one(zp))

-----------------------------------------------------------------------------
(* fields/large.rs: LargePrimeField, elements are ramp::Int; / truncates
   and % takes the dividend's sign, as sub's adjustment of a negative
   remainder expects *)

LargePrimeField(prime) == [backend |-> "large", prime |-> prime]

large_zero(zp) == 0

large_one(zp) == 1

large_add(zp, a, b) == Rem(a + b, zp.prime)

large_sub(zp, a, b) ==
    IF Rem(a - b, zp.prime) >= 0
    THEN Rem(a - b, zp.prime)
    ELSE Rem(a - b, zp.prime) + zp.prime

large_mul(zp, a, b) == Rem(a * b, zp.prime)

\* generic_mod_pow(self, a, e)
RECURSIVE generic_mod_pow_loop(_, _, _, _)
generic_mod_pow_loop(zp, x, e, acc) ==
    IF e > 0
    THEN generic_mod_pow_loop(zp, large_mul(zp, x, x), e \div 2,
                              IF e % 2 = 0 THEN acc ELSE large_mul(zp, acc, x))
    ELSE acc

large_pow(zp, a, e) == generic_mod_pow_loop(zp, a, e, large_one(zp))

\* the while loop of inv: <<old_r, old_s>> when r is 0
RECURSIVE large_inv_loop(_, _, _, _, _, _)
large_inv_loop(s, old_s, t, old_t, r, old_r) ==
    IF r # 0
    THEN large_inv_loop(old_s - Quot(old_r, r) * s, s,
                        old_t - Quot(old_r, r) * t, t,
                        old_r - Quot(old_r, r) * r, r)
    ELSE <<old_r, old_s>>

\* d and inv, from <<old_r, old_s>>
large_inv_result(zp, ds, debug) ==
    IF debug /\ ds[1] # 1
    THEN Panic("debug_assert_eq!(d, ramp::Int::one())")
    ELSE IF Rem(ds[2], zp.prime) >= 0
    THEN Ok(Rem(ds[2], zp.prime))
    ELSE Ok(Rem(ds[2], zp.prime) + zp.prime)

large_inv(zp, a, debug) ==
    large_inv_result(zp, large_inv_loop(0, 1, 1, 0, zp.prime, a), debug)

large_eq(zp, lhs, rhs) == lhs = rhs

\* Encode<u32>: encode(&ramp::Int::from(x))
large_encode(zp, x) ==
    IF Rem(x, zp.prime) >= 0 THEN Rem(x, zp.prime) ELSE Rem(x, zp.prime) + zp.prime

\* Decode<U>: U::from(x)
large_decode(zp, x) == x

\* Decode<u32> of NaturalPrimeField<i64>: x as u32, for 0 <= x < 2^31
natural_decode(zp, x) == x

-----------------------------------------------------------------------------
(* fields/mod.rs: the Field, Encode and Decode traits at the three backends *)

field_prime(zp) == IF zp.backend = "montgomery" THEN zp.n ELSE zp.prime

field_zero(zp) ==
    CASE zp.backend = "natural" -> natural_zero(zp)
      [] zp.backend = "montgomery" -> montgomery_zero(zp)
      [] zp.backend = "large" -> large_zero(zp)

field_one(zp) ==
    CASE zp.backend = "natural" -> natural_one(zp)
      [] zp.backend = "montgomery" -> montgomery_one(zp)
      [] zp.backend = "large" -> large_one(zp)

field_add(zp, a, b) ==
    CASE zp.backend = "natural" -> natural_add(zp, a, b)
      [] zp.backend = "montgomery" -> montgomery_add(zp, a, b)
      [] zp.backend = "large" -> large_add(zp, a, b)

field_sub(zp, a, b) ==
    CASE zp.backend = "natural" -> natural_sub(zp, a, b)
      [] zp.backend = "montgomery" -> montgomery_sub(zp, a, b)
      [] zp.backend = "large" -> large_sub(zp, a, b)

field_mul(zp, a, b) ==
    CASE zp.backend = "natural" -> natural_mul(zp, a, b)
      [] zp.backend = "montgomery" -> montgomery_mul(zp, a, b)
      [] zp.backend = "large" -> large_mul(zp, a, b)

field_pow(zp, a, e) ==
    CASE zp.backend = "natural" -> natural_pow(zp, a, e)
      [] zp.backend = "montgomery" -> montgomery_pow(zp, a, e)
      [] zp.backend = "large" -> large_pow(zp, a, e)

\* only the big-integer inv can stop, at its debug assertion
field_inv(zp, a, debug) ==
    CASE zp.backend = "natural" -> Ok(natural_inv(zp, a))
      [] zp.backend = "montgomery" -> Ok(montgomery_inv(zp, a))
      [] zp.backend = "large" -> large_inv(zp, a, debug)

field_eq(zp, lhs, rhs) ==
    CASE zp.backend = "natural" -> natural_eq(zp, lhs, rhs)
      [] zp.backend = "montgomery" -> montgomery_eq(zp, lhs, rhs)
      [] zp.backend = "large" -> large_eq(zp, lhs, rhs)

field_encode(zp, x) ==
    CASE zp.backend = "natural" -> natural_encode(zp, x)
      [] zp.backend = "montgomery" -> montgomery_encode(zp, x)
      [] zp.backend = "large" -> large_encode(zp, x)

field_decode(zp, e) ==
    CASE zp.backend = "natural" -> natural_decode(zp, e)
      [] zp.backend = "montgomery" -> montgomery_decode(zp, e)
      [] zp.backend = "large" -> large_decode(zp, e)

-----------------------------------------------------------------------------
(* A field of one of the three backends and one element that the operations
   of the field are applied to, one after the other.

   secrets holds the element, indices the element before the last
   operation where a claim needs it, given the u32 that was encoded, and
   randomness what NaturalPrimeField<i64> gives for the same operations on
   the same inputs. *)

MaxExponent == 4

\* 2, and odd primes with 2^32 mod p = 1 (3) and # 1 (7, 13)
BackendPrimes == {2, 3, 7, 13}

Backends ==
    {NaturalPrimeField(p) : p \in BackendPrimes}
    \cup {MontgomeryField32(p) : p \in BackendPrimes}
    \cup {LargePrimeField(p) : p \in BackendPrimes}

\* the natural field of the same prime
Reference(zp) == NaturalPrimeField(field_prime(zp))

Exponents(zp) == (0..MaxExponent) \cup {field_prime(zp) - 1, field_prime(zp)}

InitBackend ==
    /\ cfg \in Backends
    /\ debug_assertions \in BOOLEAN
    /\ calls = <<>>
    /\ secrets = <<>> /\ randomness = <<>> /\ shares = Nothing
    /\ secrets2 = <<>> /\ randomness2 = <<>> /\ shares2 = Nothing
    /\ indices = <<>> /\ given = <<>> /\ result = Nothing

\* no call has panicked
BackendAlive == result = Nothing \/ result.ok

BackendEncode ==
    /\ BackendAlive
    /\ \E x \in 0..(2 * field_prime(cfg) + 1) :
          /\ secrets' = <<field_encode(cfg, x)>>
          /\ randomness' = <<natural_encode(Reference(cfg), x)>>
          /\ given' = <<x>>
    /\ calls' = <<"encode">>
    /\ indices' = <<>>
    /\ result' = Nothing
    /\ UNCHANGED <<cfg, debug_assertions, shares, secrets2, randomness2, shares2>>

BackendDecode ==
    /\ calls = <<"encode">>
    /\ result' = Ok(field_decode(cfg, secrets[1]))
    /\ calls' = <<"encode", "decode">>
    /\ UNCHANGED <<cfg, debug_assertions, secrets, randomness, shares,
                   secrets2, randomness2, shares2, indices, given>>

BackendZero ==
    /\ BackendAlive
    /\ secrets' = <<field_zero(cfg)>>
    /\ randomness' = <<natural_zero(Reference(cfg))>>
    /\ calls' = <<"zero">>
    /\ indices' = <<>> /\ given' = <<>> /\ result' = Nothing
    /\ UNCHANGED <<cfg, debug_assertions, shares, secrets2, randomness2, shares2>>

BackendOne ==
    /\ BackendAlive
    /\ secrets' = <<field_one(cfg)>>
    /\ randomness' = <<natural_one(Reference(cfg))>>
    /\ calls' = <<"one">>
    /\ indices' = <<>> /\ given' = <<>> /\ result' = Nothing
    /\ UNCHANGED <<cfg, debug_assertions, shares, secrets2, randomness2, shares2>>

\* NaturalPrimeField's E is i64: the caller can hand in any i64, the
\* negative ones included
BackendElement ==
    /\ BackendAlive
    /\ cfg.backend = "natural"
    /\ \E a \in (-cfg.prime)..(-1) :
          /\ secrets' = <<a>>
          /\ randomness' = <<a>>
    /\ calls' = <<"element">>
    /\ indices' = <<>> /\ given' = <<>> /\ result' = Nothing
    /\ UNCHANGED <<cfg, debug_assertions, shares, secrets2, randomness2, shares2>>

\* the second operand is the element itself or a freshly encoded one
BackendAdd ==
    /\ BackendAlive /\ secrets # <<>>
    /\ \E b \in 0..(field_prime(cfg) - 1), own \in BOOLEAN :
          /\ secrets' = <<field_add(cfg, secrets[1],
                            IF own THEN secrets[1] ELSE field_encode(cfg, b))>>
          /\ randomness' = <<natural_add(Reference(cfg), randomness[1],
                            IF own THEN randomness[1]
                            ELSE natural_encode(Reference(cfg), b))>>
    /\ calls' = <<"add">>
    /\ indices' = <<>> /\ given' = <<>> /\ result' = Nothing
    /\ UNCHANGED <<cfg, debug_assertions, shares, secrets2, randomness2, shares2>>

BackendSub ==
    /\ BackendAlive /\ secrets # <<>>
    /\ \E b \in 0..(field_prime(cfg) - 1), own \in BOOLEAN :
          /\ secrets' = <<field_sub(cfg, secrets[1],
                            IF own THEN secrets[1] ELSE field_encode(cfg, b))>>
          /\ randomness' = <<natural_sub(Reference(cfg), randomness[1],
                            IF own THEN randomness[1]
                            ELSE natural_encode(Reference(cfg), b))>>
    /\ calls' = <<"sub">>
    /\ indices' = <<>> /\ given' = <<>> /\ result' = Nothing
    /\ UNCHANGED <<cfg, debug_assertions, shares, secrets2, randomness2, shares2>>

BackendMul ==
    /\ BackendAlive /\ secrets # <<>>
    /\ \E b \in 0..(field_prime(cfg) - 1), own \in BOOLEAN :
          /\ secrets' = <<field_mul(cfg, secrets[1],
                            IF own THEN secrets[1] ELSE field_encode(cfg, b))>>
          /\ randomness' = <<natural_mul(Reference(cfg), randomness[1],
                            IF own THEN randomness[1]
                            ELSE natural_encode(Reference(cfg), b))>>
    /\ calls' = <<"mul">>
    /\ indices' = <<>> /\ given' = <<>> /\ result' = Nothing
    /\ UNCHANGED <<cfg, debug_assertions, shares, secrets2, randomness2, shares2>>

BackendPow ==
    /\ BackendAlive /\ secrets # <<>>
    /\ \E e \in Exponents(cfg) :
          /\ secrets' = <<field_pow(cfg, secrets[1], e)>>
          /\ randomness' = <<natural_pow(Reference(cfg), randomness[1], e)>>
    /\ calls' = <<"pow">>
    /\ indices' = <<>> /\ given' = <<>> /\ result' = Nothing
    /\ UNCHANGED <<cfg, debug_assertions, shares, secrets2, randomness2, shares2>>

\* indices keeps the element inv was called on; a panic leaves no element
BackendInv ==
    /\ BackendAlive /\ secrets # <<>>
    /\ secrets' = IF field_inv(cfg, secrets[1], debug_assertions).ok
                  THEN <<field_inv(cfg, secrets[1], debug_assertions).val>>
                  ELSE <<>>
    /\ result' = IF field_inv(cfg, secrets[1], debug_assertions).ok
                 THEN Nothing
                 ELSE field_inv(cfg, secrets[1], debug_assertions)
    /\ randomness' = <<natural_inv(Reference(cfg), randomness[1])>>
    /\ indices' = secrets
    /\ calls' = <<"inv">>
    /\ given' = <<>>
    /\ UNCHANGED <<cfg, debug_assertions, shares, secrets2, randomness2, shares2>>

NextBackend ==
    \/ BackendEncode
    \/ BackendDecode
    \/ BackendZero
    \/ BackendOne
    \/ BackendElement
    \/ BackendAdd
    \/ BackendSub
    \/ BackendMul
    \/ BackendPow
    \/ BackendInv

SpecBackend == InitBackend /\ [][NextBackend]_vars

-----------------------------------------------------------------------------
(* Claims about the field backends *)

\* C14 (inverse law): in every backend, for every prime p and every element
\* a not congruent to 0, eq(mul(a, inv(a)), one()) holds.
InverseLaw ==
    (calls = <<"inv">> /\ secrets # <<>> /\ indices[1] % field_prime(cfg) # 0)
        => field_eq(cfg, field_mul(cfg, indices[1], secrets[1]), field_one(cfg))

\* the same for the elements that are not negative, over odd primes
InverseLawOfResidues ==
    (field_prime(cfg) # 2 /\ indices # <<>> /\ indices[1] >= 0) => InverseLaw


\* C15 (encode/decode round trip): in every backend, for every prime p and
\* every u32 x, decode(encode(x)) = x mod p.
EncodeDecodeRoundTrip ==
    calls = <<"encode", "decode">> => result = Ok(given[1] % field_prime(cfg))

\* the same over odd primes
EncodeDecodeRoundTripOdd ==
    field_prime(cfg) # 2 => EncodeDecodeRoundTrip

\* C16 (canonical range): after any sequence of encode, zero, one, add, sub,
\* mul, pow and inv of MontgomeryField32, the element produced stores a u32
\* in [0, p).
MontgomeryCanonicalRange ==
    (cfg.backend = "montgomery" /\ secrets # <<>>) => secrets[1] \in 0..(cfg.n - 1)

\* C17 (Montgomery refines the naive backend): for an odd prime p, decoding
\* the result of MontgomeryField32 add, sub, mul, pow and inv gives exactly
\* the value NaturalPrimeField returns for the same operation on the same
\* inputs.
MontgomeryRefinesNatural ==
    (/\ cfg.backend = "montgomery" /\ cfg.n # 2
     /\ calls \in {<<"add">>, <<"sub">>, <<"mul">>, <<"pow">>, <<"inv">>})
        => montgomery_decode(cfg, secrets[1]) = randomness[1]

\* a product of two elements that are not 0 or 1, in a field where 2^32 is
\* not 1
MontgomeryRefinesNaturalWitness ==
    /\ cfg.backend = "montgomery" /\ cfg.n = 13
    /\ calls = <<"mul">>
    /\ randomness[1] > 1
    /\ secrets[1] # randomness[1]
    /\ montgomery_decode(cfg, secrets[1]) = randomness[1]

-----------------------------------------------------------------------------
(* Claims about what the transforms compute *)

\* sum_{j < L} d[j] * omega^(i * j) mod p, from entry j on
RECURSIVE DftSum(_, _, _, _, _)
DftSum(d, omega, i, j, p) ==
    IF j >= Len(d) THEN 0
    ELSE (d[j + 1] * PowerMod(omega, i * j, p) + DftSum(d, omega, i, j + 1, p)) % p

Dft(d, omega, p) == [k \in 1..Len(d) |-> DftSum(d, omega, k - 1, 0, p)]

\* C21 (fft2 is the discrete Fourier transform): for a length L that is a
\* power of two, a primitive L-th root of unity omega and an input d, fft2
\* leaves out[i] = sum_{j<L} d[j] * omega^(i*j) mod p in the buffer, in
\* natural order; with p = 433 and omega = 354, [1..8] gives
\* [36, 303, 146, 3, 429, 422, 279, 122].
Fft2IsDft ==
    /\ fft2(NaturalPrimeField(433), <<1, 2, 3, 4, 5, 6, 7, 8>>, 354)
          = Ok(<<36, 303, 146, 3, 429, 422, 279, 122>>)
    /\ (/\ calls = <<"fft2">>
        /\ IsPower(Len(given), 2)
        /\ randomness[1] \in PrimitiveRoots(cfg, Len(given)))
           => shares = Ok(Dft(given, randomness[1], cfg.prime))

\* a buffer of length 8 that is not constant went through fft2
Fft2IsDftWitness ==
    /\ calls = <<"fft2">>
    /\ Len(given) = 8
    /\ given[2] # given[3]
    /\ randomness[1] \in PrimitiveRoots(cfg, 8)
    /\ shares = Ok(Dft(given, randomness[1], cfg.prime))

-----------------------------------------------------------------------------
(* numtheory/euclid.rs: binary_egcd. On i64, x >> 1 is the floor of x / 2
   and x & 1 is x modulo 2, for negative x too. *)

\* The three loops of binary_egcd are local: the common twos are shifted
\* out, a is made odd, and the main loop runs until a = b. Its branch for
\* b < a assigns a = b; b = a; u = s; v = t; s = u; t = v; one after the
\* other, which leaves b, s and t as they were.
binary_egcd(x, y) ==
    LET RECURSIVE shift(_, _, _)
        shift(a, b, r) ==
            IF a % 2 = 0 /\ b % 2 = 0
            THEN shift(a \div 2, b \div 2, r + 1)
            ELSE <<a, b, r>>
        shifted == shift(x, y, 0)
        alpha == shifted[1]
        beta == shifted[2]
        RECURSIVE halve(_, _, _)
        halve(a, u, v) ==
            IF a % 2 = 0
            THEN IF u % 2 = 0 /\ v % 2 = 0
                 THEN halve(a \div 2, u \div 2, v \div 2)
                 ELSE halve(a \div 2, (u + beta) \div 2, (v - alpha) \div 2)
            ELSE <<a, u, v>>
        halved == halve(alpha, 1, 0)
        RECURSIVE loop(_, _, _, _, _, _)
        loop(a, b, u, v, s, t) ==
            IF a = b THEN <<a, s, t>>
            ELSE IF b % 2 = 0
            THEN IF s % 2 = 0 /\ t % 2 = 0
                 THEN loop(a, b \div 2, u, v, s \div 2, t \div 2)
                 ELSE loop(a, b \div 2, u, v, (s + beta) \div 2, (t - alpha) \div 2)
            ELSE IF b < a
            THEN loop(b, b, s, t, s, t)
            ELSE loop(a, b - a, u, v, s - u, t - v)
        last == loop(halved[1], beta, halved[2], halved[3], 0, 1)
    IN  IF x = 0 THEN <<y, 0, 1>>
        ELSE IF y = 0 THEN <<x, 1, 0>>
        ELSE <<last[1] * IntPow(2, shifted[3]), last[2], last[3]>>

-----------------------------------------------------------------------------
(* The Euclidean functions applied to small operands *)

MaxOperand == 12

EuclidPrimes == {2, 3, 7, 13}

InitEuclid ==
    /\ cfg \in {NaturalPrimeField(p) : p \in EuclidPrimes}
    /\ debug_assertions \in BOOLEAN
    /\ calls = <<>>
    /\ secrets = <<>> /\ randomness = <<>> /\ shares = Nothing
    /\ secrets2 = <<>> /\ randomness2 = <<>> /\ shares2 = Nothing
    /\ indices = <<>> /\ given = <<>> /\ result = Nothing

Gcd ==
    /\ calls = <<>>
    /\ \E a \in 0..MaxOperand, b \in 0..MaxOperand :
          /\ given' = <<a, b>>
          /\ result' = Ok(gcd(a, b))
    /\ calls' = <<"gcd">>
    /\ UNCHANGED <<cfg, debug_assertions, secrets, randomness, shares, secrets2,
                   randomness2, shares2, indices>>

BinaryEgcd ==
    /\ calls = <<>>
    /\ \E a \in 0..MaxOperand, b \in 0..MaxOperand :
          /\ given' = <<a, b>>
          /\ result' = Ok(binary_egcd(a, b))
    /\ calls' = <<"binary_egcd">>
    /\ UNCHANGED <<cfg, debug_assertions, secrets, randomness, shares, secrets2,
                   randomness2, shares2, indices>>

\* a < b for two u64, from the highest byte down
RECURSIVE u64_less(_, _, _)
u64_less(a, b, i) ==
    IF i = 0 THEN FALSE
    ELSE IF a[i] # b[i] THEN a[i] < b[i]
    ELSE u64_less(a, b, i - 1)

\* 2 * a + b on u64, for a bit b
u64_double(a, b) == add_carry(a, a, 1, b)

\* one step of the long division by n: the remainder so far is doubled and
\* takes the next bit b of the dividend, and n is subtracted when it fits,
\* which it does whenever the doubling carries out of the 64 bits
u64_divmod_subtract(n, q, fits, shifted) ==
    IF fits
    THEN <<u64_double(q, 1), wrapping_sub(shifted, n)>>
    ELSE <<u64_double(q, 0), shifted>>

u64_divmod_step(n, b, qr) ==
    IF qr[2][8] >= 128
    THEN u64_divmod_subtract(n, qr[1], TRUE, u64_double(qr[2], b))
    ELSE u64_divmod_subtract(n, qr[1], ~u64_less(u64_double(qr[2], b), n, 8),
                             u64_double(qr[2], b))

\* the steps for bits j down to 0 of one byte of the dividend; each result
\* is bound to a value, so that it is computed once
RECURSIVE u64_divmod_bits(_, _, _, _)
u64_divmod_bits(n, byte, j, qr) ==
    IF j < 0 THEN qr
    ELSE CHOOSE last \in
             {u64_divmod_bits(n, byte, j - 1, next) :
                  next \in {u64_divmod_step(n, (byte \div IntPow(2, j)) % 2, qr)}} : TRUE

\* <<a / n, a % n>> of the bytes of a from byte i up, for n > 0, by long
\* division from the highest byte
RECURSIVE u64_divmod(_, _, _)
u64_divmod(a, n, i) ==
    IF i > 8 THEN <<u64(0), u64(0)>>
    ELSE CHOOSE qr \in {u64_divmod_bits(n, a[i], 7, higher) :
                            higher \in {u64_divmod(a, n, i + 1)}} : TRUE

i64_abs(a) == IF a[8] >= 128 THEN wrapping_neg(a) ELSE a

\* a / b and a % b on i64: the quotient is truncated and the remainder takes
\* the sign of the dividend
i64_signed(negative, magnitude) ==
    IF negative THEN wrapping_neg(magnitude) ELSE magnitude

i64_div(a, b) ==
    i64_signed((a[8] >= 128) # (b[8] >= 128),
               u64_divmod(i64_abs(a), i64_abs(b), 1)[1])

i64_rem(a, b) ==
    i64_signed(a[8] >= 128,
               u64_divmod(i64_abs(a), i64_abs(b), 1)[2])

\* gcd on i64 operands held as eight bytes
gcd_i64_result(r, n) == <<r[1], r[3], wrapping_sub(r[2], wrapping_mul(r[3], n))>>

RECURSIVE gcd_i64(_, _)
gcd_i64(a, b) ==
    IF b = u64(0)
    THEN <<a, u64(1), u64(0)>>
    ELSE CHOOSE t \in {gcd_i64_result(r, n) : r \in {gcd_i64(b, i64_rem(a, b))},
                                               n \in {i64_div(a, b)}} : TRUE

\* prime + r on i64 and the final % prime: the sum of two numbers of the same
\* sign overflows when its sign differs from theirs, which is a panic with
\* overflow checks and a wrapped sum without them
mod_inverse_i64_result(prime, r, sum, debug) ==
    IF (prime[8] >= 128) = (r[8] >= 128) /\ (sum[8] >= 128) # (r[8] >= 128) /\ debug
    THEN Panic("attempt to add with overflow")
    ELSE Ok(i64_rem(sum, prime))

mod_inverse_i64_r(prime, k2) ==
    IF k2[8] >= 128
    THEN wrapping_neg(gcd_i64(prime, wrapping_neg(k2))[3])
    ELSE gcd_i64(prime, k2)[3]

\* mod_inverse(k, prime) in the 64-bit arithmetic of i64
mod_inverse_i64_sum(prime, r, debug) ==
    mod_inverse_i64_result(prime, r, wrapping_add(prime, r), debug)

mod_inverse_i64(k, prime, debug) ==
    mod_inverse_i64_sum(prime, mod_inverse_i64_r(prime, i64_rem(k, prime)), debug)

\* the primes above 2^62 that are tried: 2^63 - 25, the largest prime of i64
WidePrimes == {<<231, 255, 255, 255, 255, 255, 255, 127>>}

ModInverse ==
    /\ calls = <<>>
    /\ \/ \E k \in (-2 * MaxOperand)..(2 * MaxOperand) :
             /\ given' = <<k>>
             /\ indices' = <<>>
             /\ result' = Ok(mod_inverse(k, cfg.prime))
       \/ \E k \in ((-MaxOperand)..MaxOperand) \ {0}, prime \in WidePrimes :
             /\ given' = <<k>>
             /\ indices' = prime
             /\ result' = mod_inverse_i64(i64(k), prime, debug_assertions)
    /\ calls' = <<"mod_inverse">>
    /\ UNCHANGED <<cfg, debug_assertions, secrets, randomness, shares, secrets2,
                   randomness2, shares2>>

\* the orders n and m and the primes p that check_prime_form is tried on
MaxFormOrder == 5

MaxFormPrime == 41

\* find_field hands the primes of primal::Primes::all() to check_prime_form
CheckPrimeForm ==
    /\ calls = <<>>
    /\ \E min_p \in {0, MaxOperand}, n \in 1..MaxFormOrder, m \in 1..MaxFormOrder,
          p \in {q \in 2..MaxFormPrime : IsPrime(q)} :
          /\ given' = <<min_p, n, m, p>>
          /\ result' = Ok(check_prime_form(min_p, n, m, p))
    /\ calls' = <<"check_prime_form">>
    /\ UNCHANGED <<cfg, debug_assertions, secrets, randomness, shares, secrets2,
                   randomness2, shares2, indices>>

NextEuclid ==
    \/ Gcd
    \/ BinaryEgcd
    \/ ModInverse
    \/ CheckPrimeForm

SpecEuclid == InitEuclid /\ [][NextEuclid]_vars

\* r is in [0, p) and k * r is congruent to 1 modulo p, for small k and p
IsInverse(r, k, p) == r \in 0..(p - 1) /\ (k * r) % p = 1

\* r is in [0, p), for a u64 r and a prime p above 2^62
IsResidueWide(r, p) == r[8] < 128 /\ u64_less(r, p, 8)

\* the greatest common divisor of a and b, not both zero
GreatestCommonDivisor(a, b) ==
    CHOOSE g \in 1..(a + b) :
        /\ a % g = 0 /\ b % g = 0
        /\ \A h \in 1..(a + b) : a % h = 0 /\ b % h = 0 => h <= g

\* (g, s, t) is the greatest common divisor of a and b with its Bezout
\* coefficients
IsBezout(triple, a, b) ==
    /\ triple[1] = GreatestCommonDivisor(a, b)
    /\ triple[2] * a + triple[3] * b = triple[1]

\* C23 (extended Euclid): for a >= 0 and b >= 0 not both zero, gcd(a, b)
\* returns (g, s, t) where g is the greatest common divisor of a and b and
\* s*a + t*b = g; gcd(12, 16) = (4, -1, 1).
GcdBezout ==
    /\ gcd(12, 16) = <<4, -1, 1>>
    /\ (calls = <<"gcd">> /\ given[1] + given[2] > 0)
          => result.ok /\ IsBezout(result.val, given[1], given[2])

\* gcd ran on two operands that need more than one division
GcdBezoutWitness ==
    /\ calls = <<"gcd">>
    /\ given = <<12, 8>>
    /\ result = Ok(<<4, 1, -1>>)

\* C24 (the binary variant agrees): for positive a and b, binary_egcd(a, b)
\* returns (g, s, t) where g is the greatest common divisor of a and b and
\* s*a + t*b = g; binary_egcd(10, 4) = (2, 1, -2).
BinaryEgcdBezout ==
    /\ binary_egcd(10, 4) = <<2, 1, -2>>
    /\ (calls = <<"binary_egcd">> /\ given[1] > 0 /\ given[2] > 0)
          => result.ok /\ IsBezout(result.val, given[1], given[2])


\* C25 (mod_inverse): for every prime p and every integer k, positive or
\* negative, that p does not divide, mod_inverse(k, p) returns r in [0, p)
\* with k * r congruent to 1 modulo p; mod_inverse(3, 7) = 5.
ModInverseLaw ==
    /\ mod_inverse(3, 7) = 5
    /\ (calls = <<"mod_inverse">> /\ indices = <<>> /\ given[1] % cfg.prime # 0)
          => result.ok /\ IsInverse(result.val, given[1], cfg.prime)
    /\ (calls = <<"mod_inverse">> /\ indices # <<>>)
          => result.ok /\ IsResidueWide(result.val, indices)

\* the part of C25 for primes below 2^31 holds
ModInverseLawSmall ==
    (calls = <<"mod_inverse">> /\ indices = <<>> /\ given[1] % cfg.prime # 0)
        => result.ok /\ IsInverse(result.val, given[1], cfg.prime)

-----------------------------------------------------------------------------
(* fields/montgomery.rs for primes from 2^31 up, which do not fit the
   integers of the definitions above: the prime, the fields of the struct and
   the elements are u32 held as u64, eight bytes each. *)

\* mod_pow(x, e, prime) on i64, for 0 <= x < prime < 2^32; the products stay
\* below 2^63 for the primes that are tried
RECURSIVE mod_pow_i64(_, _, _, _)
mod_pow_i64(x, e, acc, prime) ==
    IF e > 0
    THEN mod_pow_i64(i64_rem(wrapping_mul(x, x), prime), e \div 2,
                     IF e % 2 = 0 THEN acc ELSE i64_rem(wrapping_mul(acc, x), prime),
                     prime)
    ELSE acc

\* MontgomeryField32::new; prime + r in mod_inverse is far below 2^63 here
MontgomeryField32Wide(prime) ==
    [backend |-> "montgomery",
     n |-> prime,
     r_inv |-> low32(mod_inverse_i64(montgomery_r, prime, FALSE).val),
     n_quote |-> low32(wrapping_sub(montgomery_r,
                           mod_inverse_i64(prime, montgomery_r, FALSE).val)),
     r_cube |-> low32(mod_pow_i64(i64_rem(montgomery_r, prime), 3, u64(1), prime))]

\* the reduction of a sum a + m * n: the sum itself is computed by the caller,
\* t is its upper half
redc_reduce(zp, t) == IF u64_less(t, zp.n, 8) THEN t ELSE wrapping_sub(t, zp.n)

\* a + m * n is a u64 addition: when it carries out of the 64 bits the build
\* with overflow checks panics and the other one keeps the low 64 bits
redc_sum(zp, a, sum, debug) ==
    IF u64_less(sum, a, 8) /\ debug
    THEN Panic("attempt to add with overflow")
    ELSE Ok(redc_reduce(zp, low32(shr32(sum))))

redc_wide(zp, a, debug) ==
    redc_sum(zp, a,
             wrapping_add(a, wrapping_mul(low32(wrapping_mul(low32(a), zp.n_quote)),
                                          zp.n)),
             debug)

montgomery_encode_wide(zp, a) == u64_divmod(shl32(a), zp.n, 1)[2]

montgomery_decode_wide(zp, a) == u64_divmod(wrapping_mul(a, zp.r_inv), zp.n, 1)[2]

montgomery_mul_wide(zp, a, b, debug) == redc_wide(zp, wrapping_mul(a, b), debug)

\* 2^32 - 5, the largest prime of u32, and 2^31 + 11, the smallest above 2^31
WideMontgomeryPrimes == {<<251, 255, 255, 255, 0, 0, 0, 0>>, <<11, 0, 0, 128, 0, 0, 0, 0>>}

\* the integers of [0, p) that are tried: the lowest, the highest and 2^31
WideOperands(zp) ==
    {u64(x) : x \in 0..MaxElem}
        \cup {wrapping_sub(zp.n, u64(x)) : x \in 1..(MaxElem + 1)}
        \cup {<<0, 0, 0, 128, 0, 0, 0, 0>>}

InitMontgomery ==
    /\ cfg \in {MontgomeryField32Wide(p) : p \in WideMontgomeryPrimes}
    /\ debug_assertions \in BOOLEAN
    /\ calls = <<>>
    /\ secrets = <<>> /\ randomness = <<>> /\ shares = Nothing
    /\ secrets2 = <<>> /\ randomness2 = <<>> /\ shares2 = Nothing
    /\ indices = <<>> /\ given = <<>> /\ result = Nothing

\* decode(mul(encode(a), encode(b))): shares is the outcome of mul, result the
\* decoded product
MontgomeryMulDecoded(zp, product) ==
    IF product.ok THEN Ok(montgomery_decode_wide(zp, product.val)) ELSE product

MontgomeryMul ==
    /\ calls = <<>>
    /\ \E a \in WideOperands(cfg), b \in WideOperands(cfg) :
          /\ given' = <<a, b>>
          /\ secrets' = <<montgomery_encode_wide(cfg, a), montgomery_encode_wide(cfg, b)>>
    /\ shares' = montgomery_mul_wide(cfg, secrets'[1], secrets'[2], debug_assertions)
    /\ result' = MontgomeryMulDecoded(cfg, shares')
    /\ calls' = <<"mul">>
    /\ UNCHANGED <<cfg, debug_assertions, randomness, secrets2, randomness2, shares2,
                   indices>>

NextMontgomery == MontgomeryMul

SpecMontgomery == InitMontgomery /\ [][NextMontgomery]_vars

\* C26 (Montgomery multiplication is exact for every prime the backend
\* accepts): for every odd prime p < 2^32 and all a, b in [0, p),
\* decode(mul(encode(a), encode(b))) = a * b mod p, and the 64-bit
\* intermediate x + m * p inside redc never exceeds 2^64 - 1.
MontgomeryExact ==
    calls = <<"mul">>
        => /\ shares.ok
           /\ result = Ok(u64_divmod(wrapping_mul(given[1], given[2]), cfg.n, 1)[2])
           /\ LET x == wrapping_mul(secrets[1], secrets[2])
                  m == low32(wrapping_mul(low32(x), cfg.n_quote))
              IN  ~u64_less(wrapping_add(x, wrapping_mul(m, cfg.n)), x, 8)

\* the part of C26 for the prime 2^31 + 11 holds
MontgomeryExactBelow ==
    (calls = <<"mul">> /\ cfg.n = <<11, 0, 0, 128, 0, 0, 0, 0>>)
        => /\ shares.ok
           /\ result = Ok(u64_divmod(wrapping_mul(given[1], given[2]), cfg.n, 1)[2])


\* p is the first prime that check_prime_form(min_p, n, m, .) accepts
FirstAccepted(min_p, n, m, p) ==
    /\ IsPrime(p) /\ check_prime_form(min_p, n, m, p)
    /\ \A q \in 2..(p - 1) : ~(IsPrime(q) /\ check_prime_form(min_p, n, m, q))

\* C27 as stated (prime filter of parameter generation): every p for which
\* check_prime_form(min_p, n, m, p) returns true satisfies p >= min_p, p
\* congruent to 1 modulo n * m, and (p - 1) / (n * m) coprime to both n and
\* m; the first prime accepted for min_p = 198, n = 8, m = 9 is 433.
PrimeFormCoprime ==
    /\ FirstAccepted(198, 8, 9, 433)
    /\ (calls = <<"check_prime_form">> /\ result = Ok(TRUE))
          => LET n == given[2]
                 m == given[3]
                 p == given[4]
                 k == (p - 1) \div (n * m)
             IN  /\ p >= given[1]
                 /\ p % (n * m) = 1 % (n * m)
                 /\ GreatestCommonDivisor(k, n) = 1
                 /\ GreatestCommonDivisor(k, m) = 1

\* C27 as the code has it: every p that check_prime_form accepts satisfies
\* p >= min_p, p congruent to 1 modulo n and modulo m (so modulo n * m when n
\* and m are coprime), and (p - 1) / (n * m) is a multiple of neither n nor
\* m; the first prime accepted for min_p = 198, n = 8, m = 9 is 433, where
\* (p - 1) / (n * m) = 6.
PrimeFormAccepted ==
    /\ FirstAccepted(198, 8, 9, 433)
    /\ (calls = <<"check_prime_form">> /\ result = Ok(TRUE))
          => LET n == given[2]
                 m == given[3]
                 p == given[4]
                 k == (p - 1) \div (n * m)
             IN  /\ p >= given[1]
                 /\ p % n = 1 % n /\ p % m = 1 % m
                 /\ GreatestCommonDivisor(n, m) = 1 => p % (n * m) = 1 % (n * m)
                 /\ k % n # 0 /\ k % m # 0

\* a prime is accepted whose quotient shares a factor with n
PrimeFormAcceptedWitness ==
    /\ calls = <<"check_prime_form">>
    /\ given = <<MaxOperand, 4, 5, 41>>
    /\ result = Ok(TRUE)


\* C28 (share is total on valid input): for every PackedSecretSharing that
\* satisfies the configuration invariants, threshold 0 or 1 included, every
\* secrets vector of length secret_count and every sequence of values the
\* random source can return, share runs to completion and returns
\* share_count shares.
ShareTotal ==
    calls = <<"share">> => shares.ok /\ Len(shares.val) = cfg.share_count

\* the part of C28 for builds without debug assertions holds
ShareTotalWithoutDebugAssertions ==
    (calls = <<"share">> /\ ~debug_assertions)
        => shares.ok /\ Len(shares.val) = cfg.share_count


\* C29 (reconstruct does not depend on the number of extra shares): for the
\* pointwise product P of two share vectors of a configuration with
\* share_count >= 2 * (threshold + secret_count), reconstruct([0..c), P[0..c))
\* returns the same vector, the pointwise product of the secrets, for every c
\* from 2 * (threshold + secret_count) to share_count, c = share_count
\* included.
ReconstructProductAnyCount ==
    calls = <<"share", "share", "reconstruct_product_prefix">>
        => /\ result = Ok(pointwise_mul(cfg.field, secrets, secrets2))
           /\ result = packed_reconstruct(cfg, Ranks(cfg.share_count),
                           pointwise_mul(cfg.field, shares.val, shares2.val))

\* the part of C29 for fewer than share_count entries and a positive
\* threshold holds
ReconstructProductFewerThanAll ==
    (/\ calls = <<"share", "share", "reconstruct_product_prefix">>
     /\ Len(indices) < cfg.share_count
     /\ cfg.threshold >= 1)
        => result = Ok(pointwise_mul(cfg.field, secrets, secrets2))


\* every element of the list is in [0, p)
Canonical(zp, elements) ==
    \A i \in 1..Len(elements) : elements[i] \in 0..(field_prime(zp) - 1)

\* C30 (the naive backend is closed on canonical values): a step of
\* NaturalPrimeField zero, one, encode, add, sub, mul, pow or inv taken from
\* an element in [0, p), with operands in [0, p), leaves an element in
\* [0, p); eq then compares the residues and decode returns the residue.
NaturalClosed ==
    [][(/\ cfg.backend = "natural"
        /\ Canonical(cfg, secrets)
        /\ calls' # <<"element">>)
          => /\ Canonical(cfg, secrets')
             /\ \A i \in 1..Len(secrets') :
                   /\ \A b \in 0..(cfg.prime - 1) :
                         natural_eq(cfg, secrets'[i], b) <=> secrets'[i] = b
                   /\ natural_decode(cfg, secrets'[i]) = secrets'[i] % cfg.prime
             /\ calls' = <<"encode", "decode">> => result' = Ok(given[1] % cfg.prime)]_vars

\* inv was taken of a canonical element other than 0, 1 and p - 1, and gave
\* a canonical element
NaturalClosedWitness ==
    /\ cfg.backend = "natural"
    /\ calls = <<"inv">>
    /\ indices[1] \in 2..(cfg.prime - 2)
    /\ secrets[1] \in 2..(cfg.prime - 2)
    /\ (secrets[1] * indices[1]) % cfg.prime = 1

=============================================================================
